---- MODULE Spec2Model ----
(***************************************************************************)
(* TERA (systemshift/DHT2VEC): homomorphic set hash, extension-aware       *)
(* content store (blocks + extension graph), chain verifier and the        *)
(* two-gate gatekeeper.                                                    *)
(*                                                                         *)
(* Scaled-down quantities:                                                 *)
(*   - the group modulus Prime (a 256-bit prime in the source) is a small  *)
(*     prime, so that the hash space 0..Prime-1 can be enumerated;         *)
(*   - SHA3-256 (an external library) is replaced by the big-endian        *)
(*     integer value of the bytes, a deterministic injective digest; the   *)
(*     byte strings used as inputs are chosen so that their element        *)
(*     hashes are distinct and non-zero mod Prime;                         *)
(*   - float64 similarity scores are fixed-point integers, scale 1000.     *)
(***************************************************************************)
EXTENDS Integers, Sequences, FiniteSets, TLC

VARIABLES
    blocks,     \* blk:<hash>      -> Block          (BlockStore)
    ext,        \* ext:<child>     -> ExtensionRecord (ExtensionGraph)
    children,   \* children:<p>    -> list of child hashes
    rootIdx,    \* root:<r>        -> list of descendant hashes
    ops,        \* number of store operations issued so far
    hung,       \* the (single, sequential) caller is stuck inside a call
    ret,        \* what the last store operation returned
    txn,        \* the read-write transaction of an AddExtension in progress
    gk,         \* the Gatekeeper's counters
    gret,       \* what the last Gatekeeper operation returned
    gcalls,     \* number of Gatekeeper operations issued so far
    panicked,   \* a Gatekeeper call panicked (nothing in the program recovers)
    node,       \* the network Node: interests, params, gatekeeper, content map
    simulator,  \* the GossipSimulator's Nodes, a list of SimulatedNode
    delivered,  \* number of extensions delivered to the nodes so far
    nret,       \* the last delivery to a node and what it returned
    threads,    \* goroutines calling ShouldForward on the one Gatekeeper
    reader,     \* a GetChain call in progress: its target, position and chain
    history,    \* the committed ext records since that GetChain call began
    writes,     \* AddExtension calls made beside the reader
    cr,         \* the last call into package crypto or semantic: arguments and result
    contents    \* core.Content values made so far, the byte arrays behind their Data,
                \* and the last operation on them

storeVars == <<blocks, ext, children, rootIdx, ops, hung, ret>>

gateVars == <<gk, gret, gcalls, panicked>>

nodeVars == <<node, simulator, delivered, nret>>

raceVars == <<threads>>

readVars == <<reader, history, writes>>

cryptoVars == <<cr>>

coreVars == <<contents>>

vars == <<blocks, ext, children, rootIdx, ops, hung, ret, txn, gk, gret, gcalls, panicked,
          node, simulator, delivered, nret, threads, reader, history, writes,
          cr, contents>>

----------------------------------------------------------------------------
(* Bounds of the model *)

\* store operations issued in one behaviour
MaxOps == 4

\* hashes passed as keepRoots to one GarbageCollect
MaxKeep == 1

\* AddExtension transactions opened in one behaviour
MaxTxns == 3

----------------------------------------------------------------------------
(* lists as sets *)

ToSet(seq) == { seq[i] : i \in 1 .. Len(seq) }

NoDuplicates(seq) == \A i, j \in 1 .. Len(seq) : seq[i] = seq[j] => i = j

----------------------------------------------------------------------------
(* crypto: integers mod Prime *)

\* crypto.Prime, scaled down
Prime == 3

Hashes == 0 .. (Prime - 1)

\* crypto.NewHash: reduce modulo Prime (big.Int.Mod is the Euclidean modulus)
NewHash(value) == value % Prime

\* an identity that is one
One == NewHash(1)

\* crypto.Zero
Zero == NewHash(0)

\* sha3.Sum256 followed by big.Int.SetBytes: a digest of the bytes as an
\* integer.  The stand-in is a polynomial in the bytes whose value on a
\* concatenation is not the sum of the values on the parts, as the digest's is
\* not.
RECURSIVE Sha3_256(_)
Sha3_256(data) ==
    IF Len(data) = 0 THEN 0
    ELSE Sha3_256(SubSeq(data, 1, Len(data) - 1)) * 257 + data[Len(data)]

\* crypto.HashElement
HashElement(data) == NewHash(Sha3_256(data))

\* crypto.Extend: H_new = H_old + H(new_element) mod Prime
Extend(oldHash, newElement) == NewHash(oldHash + HashElement(newElement))

\* the sum of the element hashes, as HashSet's loop accumulates it
RECURSIVE SumElements(_)
SumElements(elements) ==
    IF Len(elements) = 0 THEN 0
    ELSE SumElements(SubSeq(elements, 1, Len(elements) - 1))
             + HashElement(elements[Len(elements)])

\* a set hash that weighs each element by its position
RECURSIVE HashSetPositional(_)
HashSetPositional(elements) ==
    IF Len(elements) = 0 THEN NewHash(0)
    ELSE NewHash(HashSetPositional(SubSeq(elements, 1, Len(elements) - 1))
                     + Len(elements) * HashElement(elements[Len(elements)]))

\* crypto.HashSet: the sum of the element hashes, reduced once at the end
HashSet(elements) == NewHash(SumElements(elements))

\* a Combine that does not reduce its sum
CombineUnreduced(h1, h2) == h1 + h2

\* crypto.Combine
Combine(h1, h2) == NewHash(h1 + h2)

\* a verification that does not look at the element
VerifyExtensionNoElement(oldHash, newHash, newElement) == newHash # oldHash

\* crypto.VerifyExtension
VerifyExtension(oldHash, newHash, newElement) ==
    Extend(oldHash, newElement) = newHash

\* byte strings used as content and as deltas: "d" and "e"
Data == { <<100>>, <<101>> }

\* the length Hash.Bytes pads to
HashSize == 32

\* big.Int.Bytes: the big-endian bytes of the absolute value, none for zero
RECURSIVE BigIntBytes(_)
BigIntBytes(value) ==
    IF value = 0 THEN <<>>
    ELSE Append(BigIntBytes(value \div 256), value % 256)

\* big.Int.SetBytes: the value of big-endian bytes
RECURSIVE SetBytes(_)
SetBytes(data) ==
    IF Len(data) = 0 THEN 0
    ELSE SetBytes(SubSeq(data, 1, Len(data) - 1)) * 256 + data[Len(data)]

\* a Bytes that does not pad
HashBytesUnpadded(h) == BigIntBytes(h)

\* Hash.Bytes: padded with zeros on the high side to 32 bytes
HashBytes(h) ==
    LET bytes == BigIntBytes(h)
    IN  IF Len(bytes) < HashSize
        THEN [i \in 1 .. HashSize |->
                 IF i <= HashSize - Len(bytes) THEN 0
                 ELSE bytes[i - (HashSize - Len(bytes))]]
        ELSE bytes

\* the digits of hex.EncodeToString, by value
HexDigits == <<"0", "1", "2", "3", "4", "5", "6", "7",
               "8", "9", "a", "b", "c", "d", "e", "f">>

\* hex.EncodeToString: two digits a byte.  Strings are lists of characters.
HexEncode(bytes) ==
    [i \in 1 .. 2 * Len(bytes) |->
        IF i % 2 = 1 THEN HexDigits[(bytes[(i + 1) \div 2] \div 16) + 1]
        ELSE HexDigits[(bytes[i \div 2] % 16) + 1]]

\* Hash.Hex
HashHex(h) == HexEncode(HashBytes(h))

\* Hash.String
HashString(h) == <<"0", "x">> \o HashHex(h)

\* the value of a digit in base 16 (upper or lower case), or -1
DigitValue(c) ==
    IF \E d \in 1 .. 16 : HexDigits[d] = c
    THEN (CHOOSE d \in 1 .. 16 : HexDigits[d] = c) - 1
    ELSE IF c \in {"A", "B", "C", "D", "E", "F"}
    THEN CHOOSE v \in 10 .. 15 :
             <<c, v>> \in {<<"A", 10>>, <<"B", 11>>, <<"C", 12>>,
                           <<"D", 13>>, <<"E", 14>>, <<"F", 15>>}
    ELSE -1

\* the digits of s as a number in base 16
RECURSIVE DigitsValue(_)
DigitsValue(str) ==
    IF Len(str) = 0 THEN 0
    ELSE DigitsValue(SubSeq(str, 1, Len(str) - 1)) * 16 + DigitValue(str[Len(str)])

\* big.Int.SetString(s, 16): an optional sign, then one or more digits
SetString16(str) ==
    LET signed == Len(str) > 0 /\ str[1] \in {"+", "-"}
        digits == IF signed THEN SubSeq(str, 2, Len(str)) ELSE str
    IN  IF Len(digits) = 0 \/ \E i \in 1 .. Len(digits) : DigitValue(digits[i]) = -1
        THEN [ok |-> FALSE]
        ELSE [ok |-> TRUE,
              value |-> IF signed /\ str[1] = "-" THEN 0 - DigitsValue(digits)
                        ELSE DigitsValue(digits)]

\* errors of package crypto
ErrInvalidHex == "invalid hex string"

\* a FromHex that keeps the prefix
FromHexKeepPrefix(hexStr) ==
    LET val == SetString16(hexStr)
    IN  IF ~val.ok THEN [ok |-> FALSE, err |-> ErrInvalidHex]
        ELSE [ok |-> TRUE, h |-> NewHash(val.value), err |-> "nil"]

\* crypto.FromHex: remove a leading "0x", parse in base 16, reduce
FromHex(hexStr) ==
    LET stripped == IF Len(hexStr) >= 2 /\ SubSeq(hexStr, 1, 2) = <<"0", "x">>
                    THEN SubSeq(hexStr, 3, Len(hexStr))
                    ELSE hexStr
        val == SetString16(stripped)
    IN  IF ~val.ok THEN [ok |-> FALSE, err |-> ErrInvalidHex]
        ELSE [ok |-> TRUE, h |-> NewHash(val.value), err |-> "nil"]

\* crypto.FromBytes
FromBytes(data) == NewHash(SetBytes(data))

----------------------------------------------------------------------------
(* storage: values held under the key prefixes *)

NoBlock == [ok |-> FALSE]

Block(data) == [ok |-> TRUE, Hash |-> HashElement(data), Data |-> data, Size |-> Len(data)]

NoRecord == [ok |-> FALSE]

\* storage.ExtensionRecord as AddExtension builds it.  ChildDualHash, Timestamp
\* and Publisher are never read back by the operations modelled here.
ExtensionRecord(parent, child, delta) ==
    [ok |-> TRUE, Parent |-> parent, Child |-> child, Delta |-> delta]

\* errors of package storage
ErrNone == "nil"
ErrBlockNotFound == "block not found"
ErrExtensionNotFound == "extension not found"
ErrInvalidExtension == "invalid extension"

\* the call never returns (its loop never ends)
NoReturn == "never returns"

\* BlockStore.Put: txn.Set(blockKey(hash), block)
BlockStorePut(blks, data) == [blks EXCEPT ![HashElement(data)] = Block(data)]

\* BlockStore.Delete
BlockStoreDelete(blks, hash) == [blks EXCEPT ![hash] = NoBlock]

\* BlockStore.List: the hashes that have a blk: key
BlockStoreList(blks) == { h \in Hashes : blks[h].ok }

\* ExtensionGraph.addChild: read children:<parent>, append, write back
addChild(chl, parent, child) == [chl EXCEPT ![parent] = Append(@, child)]

\* ExtensionGraph.addDescendant: read root:<root>, append, write back
addDescendant(rts, root, descendant) == [rts EXCEPT ![root] = Append(@, descendant)]

\* A walk that has not ended after visiting every hash is in a cycle and never ends.
Looping == -1

\* ExtensionGraph.findRootInTxn: follow record.Parent until a hash has no record.
RECURSIVE findRootFuel(_, _, _)
findRootFuel(extmap, current, fuel) ==
    IF ~extmap[current].ok THEN current
    ELSE IF fuel = 0 THEN Looping
    ELSE findRootFuel(extmap, extmap[current].Parent, fuel - 1)

findRootInTxn(extmap, hash) == findRootFuel(extmap, hash, Prime)

\* ExtensionGraph.AddExtension, the body of its db.Update transaction: set the
\* record, append to the children index, walk to the root (the walk sees the
\* record just set), append to the root index.  The transaction commits all three
\* writes together; when the walk never ends, nothing is ever committed.
AddExtension(parent, child, delta) ==
    LET ext1  == [ext EXCEPT ![child] = ExtensionRecord(parent, child, delta)]
        chl1  == addChild(children, parent, child)
        root  == findRootInTxn(ext1, parent)
    IN  IF root = Looping
        THEN [hang |-> TRUE, err |-> NoReturn,
              ext |-> ext, children |-> children, rootIdx |-> rootIdx]
        ELSE [hang |-> FALSE, err |-> ErrNone,
              ext |-> ext1, children |-> chl1,
              rootIdx |-> addDescendant(rootIdx, root, child)]

----------------------------------------------------------------------------
(* storage: read operations, as functions of the committed state *)

\* ExtensionGraph.GetExtension
GetExtension(hash) ==
    IF ext[hash].ok THEN [rec |-> ext[hash], err |-> ErrNone]
    ELSE [rec |-> NoRecord, err |-> ErrExtensionNotFound]

\* ExtensionGraph.GetChildren / GetAllDescendants
GetChildren(parent) == children[parent]

GetAllDescendants(root) == rootIdx[root]

\* ExtensionGraph.GetRoot
GetRoot(hash) == findRootInTxn(ext, hash)

\* ExtensionGraph.GetChain: walk backwards, prepending each record
RECURSIVE GetChainFuel(_, _, _)
GetChainFuel(current, chain, fuel) ==
    LET got == GetExtension(current)
    IN  IF got.err = ErrExtensionNotFound THEN chain
        ELSE IF fuel = 0 THEN chain
        ELSE GetChainFuel(got.rec.Parent, <<got.rec>> \o chain, fuel - 1)

\* a GetChain that appends each record instead of prepending it
RECURSIVE GetChainAppendFuel(_, _, _)
GetChainAppendFuel(current, chain, fuel) ==
    LET got == GetExtension(current)
    IN  IF got.err = ErrExtensionNotFound THEN chain
        ELSE IF fuel = 0 THEN chain
        ELSE GetChainAppendFuel(got.rec.Parent, Append(chain, got.rec), fuel - 1)

GetChainAppend(hash) == GetChainAppendFuel(hash, <<>>, Prime)

GetChain(hash) == GetChainFuel(hash, <<>>, Prime)

\* the zero value of the *crypto.Hash fields of a VerificationResult
NilHash == -2

\* a Reason that names no step
NoStep == -1

\* storage.VerificationResult of a failed verification
Invalid(reason, step) ==
    [Valid |-> FALSE, Reason |-> reason, Step |-> step,
     ChainLength |-> 0, RootHash |-> NilHash, FinalHash |-> NilHash]

\* the loop of ExtensionGraph.VerifyChain over chain[i..], then the target check
RECURSIVE VerifyChainFrom(_, _, _, _, _)
VerifyChainFrom(chain, i, currentHash, root, target) ==
    IF i > Len(chain)
    THEN IF currentHash # target
         THEN Invalid("chain does not reach target hash", NoStep)
         ELSE [Valid |-> TRUE, Reason |-> "chain verified successfully", Step |-> NoStep,
               ChainLength |-> Len(chain), RootHash |-> root, FinalHash |-> target]
    ELSE IF chain[i].Parent # currentHash
         THEN Invalid("chain break: parent mismatch", i - 1)
    ELSE IF Extend(chain[i].Parent, chain[i].Delta) # chain[i].Child
         THEN Invalid("invalid extension: hash mismatch", i - 1)
    ELSE VerifyChainFrom(chain, i + 1, chain[i].Child, root, target)

\* a VerifyChain loop that leaves out the parent check
RECURSIVE VerifyChainFromNoParent(_, _, _, _, _)
VerifyChainFromNoParent(chain, i, currentHash, root, target) ==
    IF i > Len(chain)
    THEN IF currentHash # target
         THEN Invalid("chain does not reach target hash", NoStep)
         ELSE [Valid |-> TRUE, Reason |-> "chain verified successfully", Step |-> NoStep,
               ChainLength |-> Len(chain), RootHash |-> root, FinalHash |-> target]
    ELSE IF Extend(chain[i].Parent, chain[i].Delta) # chain[i].Child
         THEN Invalid("invalid extension: hash mismatch", i - 1)
    ELSE VerifyChainFromNoParent(chain, i + 1, chain[i].Child, root, target)

VerifyChainNoParent(root, target) ==
    VerifyChainFromNoParent(GetChain(target), 1, root, root, target)

\* ExtensionGraph.VerifyChain
VerifyChain(root, target) == VerifyChainFrom(GetChain(target), 1, root, root, target)

\* a VerifyExtension that turns a missing record into an error
GraphVerifyExtensionRaises(parent, child) ==
    LET got == GetExtension(child)
    IN  IF got.err # ErrNone
        THEN [result |-> Invalid("extension record not found", NoStep), err |-> got.err]
        ELSE IF got.rec.Parent # parent
        THEN [result |-> Invalid("parent hash mismatch", NoStep), err |-> ErrNone]
        ELSE IF Extend(parent, got.rec.Delta) # child
        THEN [result |-> Invalid("child hash verification failed", NoStep), err |-> ErrNone]
        ELSE [result |-> [Valid |-> TRUE, Reason |-> "extension verified", Step |-> NoStep,
                          ChainLength |-> 1, RootHash |-> parent, FinalHash |-> child],
              err |-> ErrNone]

\* ExtensionGraph.VerifyExtension(parent, child): the result and the error
GraphVerifyExtension(parent, child) ==
    LET got == GetExtension(child)
    IN  IF got.err # ErrNone
        THEN [result |-> Invalid("extension record not found", NoStep), err |-> ErrNone]
        ELSE IF got.rec.Parent # parent
        THEN [result |-> Invalid("parent hash mismatch", NoStep), err |-> ErrNone]
        ELSE IF Extend(parent, got.rec.Delta) # child
        THEN [result |-> Invalid("child hash verification failed", NoStep), err |-> ErrNone]
        ELSE [result |-> [Valid |-> TRUE, Reason |-> "extension verified", Step |-> NoStep,
                          ChainLength |-> 1, RootHash |-> parent, FinalHash |-> child],
              err |-> ErrNone]

\* Store.VerifyChain: the result and the error (GetChain fails on storage errors
\* only, never on a missing record)
StoreVerifyChain(root, target) == [result |-> VerifyChain(root, target), err |-> ErrNone]

\* a nil []byte
NilBytes == [ok |-> FALSE]

Bytes(data) == [ok |-> TRUE, data |-> data]

\* the delta loop of ReconstructContent: content = append(content, record.Delta...)
RECURSIVE ApplyDeltas(_, _, _)
ApplyDeltas(content, chain, i) ==
    IF i > Len(chain) THEN content
    ELSE ApplyDeltas(content \o chain[i].Delta, chain, i + 1)

\* a ReconstructContent that applies the deltas leaf first
RECURSIVE ApplyDeltasReversed(_, _, _)
ApplyDeltasReversed(content, chain, i) ==
    IF i > Len(chain) THEN content
    ELSE ApplyDeltasReversed(content \o chain[Len(chain) + 1 - i].Delta, chain, i + 1)

ReconstructContentReversed(blks, hash) ==
    LET chain == GetChain(hash)
        root  == IF Len(chain) > 0 THEN chain[1].Parent ELSE hash
    IN  IF ~blks[root].ok
        THEN [content |-> NilBytes, err |-> ErrBlockNotFound]
        ELSE [content |-> Bytes(ApplyDeltasReversed(blks[root].Data, chain, 1)),
              err |-> ErrNone]

\* ExtensionGraph.ReconstructContent (Store.Reconstruct)
ReconstructContent(blks, hash) ==
    LET chain == GetChain(hash)
        root  == IF Len(chain) > 0 THEN chain[1].Parent ELSE hash
    IN  IF ~blks[root].ok
        THEN [content |-> NilBytes, err |-> ErrBlockNotFound]
        ELSE [content |-> Bytes(ApplyDeltas(blks[root].Data, chain, 1)), err |-> ErrNone]

\* a VerifyAndReconstruct that reconstructs whatever the verification says
VerifyAndReconstructUnchecked(blks, root, target) ==
    LET result == VerifyChain(root, target)
        rebuilt == ReconstructContent(blks, target)
    IN  [content |-> rebuilt.content, result |-> result, err |-> rebuilt.err]

\* ExtensionGraph.VerifyAndReconstruct (Store.VerifyAndReconstruct)
VerifyAndReconstruct(blks, root, target) ==
    LET result == VerifyChain(root, target)
    IN  IF ~result.Valid
        THEN [content |-> NilBytes, result |-> result, err |-> ErrNone]
        ELSE LET rebuilt == ReconstructContent(blks, target)
             IN  IF rebuilt.err # ErrNone
                 THEN [content |-> NilBytes, result |-> result, err |-> rebuilt.err]
                 ELSE [content |-> rebuilt.content, result |-> result, err |-> ErrNone]

----------------------------------------------------------------------------
(* storage: the Store's operations *)

\* no read-write transaction is open
NoTxn == [pc |-> "idle"]

\* core.NewGatekeeper: all counters zero
NewGatekeeper == [TotalSeen |-> 0, CryptoBlocked |-> 0, SemanticBlocked |-> 0, Forwarded |-> 0]

Init ==
    /\ blocks = [h \in Hashes |-> NoBlock]
    /\ ext = [h \in Hashes |-> NoRecord]
    /\ children = [h \in Hashes |-> <<>>]
    /\ rootIdx = [h \in Hashes |-> <<>>]
    /\ ops = 0
    /\ hung = FALSE
    /\ ret = [op |-> "NewStore", err |-> ErrNone]
    /\ txn = NoTxn
    /\ gk = NewGatekeeper
    /\ gret = [op |-> "NewGatekeeper"]
    /\ gcalls = 0
    /\ panicked = FALSE
    /\ node = [created |-> FALSE]
    /\ simulator = <<>>
    /\ delivered = 0
    /\ nret = [op |-> "none"]
    /\ threads = [t \in {"a", "b"} |-> [pc |-> "idle", done |-> 0]]
    /\ reader = [pc |-> "idle"]
    /\ history = {}
    /\ writes = 0
    /\ cr = [op |-> "none"]
    /\ contents = [heap |-> <<>>, made |-> <<>>, last |-> [op |-> "none"]]

\* Store.PutContent
PutContent(data) ==
    /\ ~hung /\ ops < MaxOps
    /\ blocks' = BlockStorePut(blocks, data)
    /\ ops' = ops + 1
    /\ ret' = [op |-> "PutContent", hash |-> HashElement(data), err |-> ErrNone]
    /\ UNCHANGED <<ext, children, rootIdx, hung, txn, gateVars, nodeVars, raceVars, readVars, cryptoVars, coreVars>>

\* Store.PutExtension: store the delta as a block, then AddExtension
PutExtension(parent, child, delta) ==
    /\ ~hung /\ ops < MaxOps
    /\ LET r == AddExtension(parent, child, delta)
       IN  /\ blocks' = BlockStorePut(blocks, delta)
           /\ ext' = r.ext
           /\ children' = r.children
           /\ rootIdx' = r.rootIdx
           /\ hung' = r.hang
           /\ ret' = [op |-> "PutExtension", err |-> r.err]
    /\ ops' = ops + 1
    /\ UNCHANGED <<txn, gateVars, nodeVars, raceVars, readVars, cryptoVars, coreVars>>

\* a mark phase that marks the kept roots only
ReachableRootsOnly(keepRoots) == keepRoots

\* a mark phase that marks the descendants and not the kept roots themselves
ReachableDescendantsOnly(keepRoots) ==
    { d \in Hashes : \E r \in keepRoots :
          \E i \in 1 .. Len(GetAllDescendants(r)) : GetAllDescendants(r)[i] = d }

\* the mark phase of Store.GarbageCollect
Reachable(keepRoots) ==
    keepRoots \cup
    { d \in Hashes : \E r \in keepRoots :
          \E i \in 1 .. Len(GetAllDescendants(r)) : GetAllDescendants(r)[i] = d }

\* Store.GarbageCollect: delete every listed block that is not marked
GarbageCollect(keepRoots) ==
    /\ ~hung /\ ops < MaxOps
    /\ LET doomed == BlockStoreList(blocks) \ Reachable(keepRoots)
       IN  /\ blocks' = [h \in Hashes |-> IF h \in doomed THEN NoBlock ELSE blocks[h]]
           /\ ret' = [op |-> "GarbageCollect", keepRoots |-> keepRoots,
                      deleted |-> Cardinality(doomed), err |-> ErrNone]
    /\ ops' = ops + 1
    /\ UNCHANGED <<ext, children, rootIdx, hung, txn, gateVars, nodeVars, raceVars, readVars, cryptoVars, coreVars>>

KeepSets == { s \in SUBSET Hashes : Cardinality(s) <= MaxKeep }

NextStore ==
    \/ \E data \in Data : PutContent(data)
    \/ \E parent \in Hashes, child \in Hashes, delta \in Data :
           PutExtension(parent, child, delta)
    \/ \E keepRoots \in KeepSets : GarbageCollect(keepRoots)

SpecStore == Init /\ [][NextStore]_vars

----------------------------------------------------------------------------
(* storage: ExtensionGraph.AddExtension step by step.  The closure passed to   *)
(* db.Update runs inside one read-write transaction: its writes are buffered   *)
(* in the transaction, its reads see the committed state overlaid with    *)
(* its own writes, and readers see the committed state only.  Every txn.Set, *)
(* every index update and the commit itself can fail.                       *)

ErrTxnFailed == "transaction failed"

\* a db.Update that keeps the writes made before the error
UpdateKeepWrites(committed, pending) == pending

\* db.Update when the closure (or the commit) returns an error: the transaction
\* is discarded and the committed state stays as it was
UpdateDiscard(committed, pending) == committed

\* db.Update opens the transaction; record := &ExtensionRecord{...}
TxnBegin(parent, child, delta) ==
    /\ ~hung /\ ops < MaxTxns
    /\ txn.pc = "idle"
    /\ txn' = [pc |-> "setRecord", parent |-> parent, child |-> child, delta |-> delta,
               root |-> NilHash,
               wext |-> ext, wchildren |-> children, wrootIdx |-> rootIdx]
    /\ ops' = ops + 1
    /\ UNCHANGED <<blocks, ext, children, rootIdx, hung, ret, gateVars, nodeVars, raceVars, readVars, cryptoVars, coreVars>>

\* txn.Set(extKey, extValue)
TxnSetRecord ==
    /\ txn.pc = "setRecord"
    /\ txn' = [txn EXCEPT !.pc = "addChild",
                          !.wext[txn.child] =
                              ExtensionRecord(txn.parent, txn.child, txn.delta)]
    /\ UNCHANGED <<blocks, ext, children, rootIdx, ops, hung, ret, gateVars, nodeVars, raceVars, readVars, cryptoVars, coreVars>>

\* eg.addChild(txn, parent, child)
TxnAddChild ==
    /\ txn.pc = "addChild"
    /\ txn' = [txn EXCEPT !.pc = "findRoot",
                          !.wchildren = addChild(txn.wchildren, txn.parent, txn.child)]
    /\ UNCHANGED <<blocks, ext, children, rootIdx, ops, hung, ret, gateVars, nodeVars, raceVars, readVars, cryptoVars, coreVars>>

\* root := eg.findRootInTxn(txn, parent); the walk reads the transaction's view
TxnFindRoot ==
    /\ txn.pc = "findRoot"
    /\ LET root == findRootInTxn(txn.wext, txn.parent)
       IN  IF root = Looping
           THEN /\ txn' = [txn EXCEPT !.pc = "spinning"]
                /\ hung' = TRUE
                /\ ret' = [op |-> "AddExtension", err |-> NoReturn, step |-> "findRoot"]
           ELSE /\ txn' = [txn EXCEPT !.pc = "addDescendant", !.root = root]
                /\ UNCHANGED <<hung, ret>>
    /\ UNCHANGED <<blocks, ext, children, rootIdx, ops, gateVars, nodeVars, raceVars, readVars, cryptoVars, coreVars>>

\* eg.addDescendant(txn, root, child)
TxnAddDescendant ==
    /\ txn.pc = "addDescendant"
    /\ txn' = [txn EXCEPT !.pc = "commit",
                          !.wrootIdx = addDescendant(txn.wrootIdx, txn.root, txn.child)]
    /\ UNCHANGED <<blocks, ext, children, rootIdx, ops, hung, ret, gateVars, nodeVars, raceVars, readVars, cryptoVars, coreVars>>

\* the closure returned nil: db.Update commits the buffered writes together
TxnCommit ==
    /\ txn.pc = "commit"
    /\ ext' = txn.wext
    /\ children' = txn.wchildren
    /\ rootIdx' = txn.wrootIdx
    /\ txn' = NoTxn
    /\ ret' = [op |-> "AddExtension", err |-> ErrNone, step |-> "commit"]
    /\ UNCHANGED <<blocks, ops, hung, gateVars, nodeVars, raceVars, readVars, cryptoVars, coreVars>>

\* a step (txn.Set, addChild, addDescendant or the commit) returns an error
TxnFail ==
    /\ txn.pc \in {"setRecord", "addChild", "addDescendant", "commit"}
    /\ LET after == UpdateDiscard(<<ext, children, rootIdx>>,
                                  <<txn.wext, txn.wchildren, txn.wrootIdx>>)
       IN  /\ ext' = after[1]
           /\ children' = after[2]
           /\ rootIdx' = after[3]
    /\ txn' = NoTxn
    /\ ret' = [op |-> "AddExtension", err |-> ErrTxnFailed, step |-> txn.pc]
    /\ UNCHANGED <<blocks, ops, hung, gateVars, nodeVars, raceVars, readVars, cryptoVars, coreVars>>

NextTxn ==
    \/ \E parent \in Hashes, child \in Hashes, delta \in Data :
           TxnBegin(parent, child, delta)
    \/ TxnSetRecord
    \/ TxnAddChild
    \/ TxnFindRoot
    \/ TxnAddDescendant
    \/ TxnCommit
    \/ TxnFail

SpecTxn == Init /\ [][NextTxn]_vars

----------------------------------------------------------------------------
(* storage: GetChain beside writers.  GetChain opens one db.View per
   GetExtension, so committed AddExtension transactions fall between its
   reads. *)

\* AddExtension calls made beside the reader
MaxWrites == 3

\* a writer's ExtensionGraph.AddExtension, committed as one transaction
WriterAddExtension(parent, child, delta) ==
    /\ ~hung /\ writes < MaxWrites
    /\ LET r == AddExtension(parent, child, delta)
       IN  /\ ext' = r.ext
           /\ children' = r.children
           /\ rootIdx' = r.rootIdx
           /\ hung' = r.hang
    /\ writes' = writes + 1
    /\ history' = IF reader.pc = "walking" THEN history \cup {ext'} ELSE history
    /\ UNCHANGED <<blocks, ops, ret, reader, txn, gateVars, nodeVars, raceVars, cryptoVars, coreVars>>

\* ExtensionGraph.GetChain(hash) is called: chain is nil, current is hash
GetChainBegin(hash) ==
    /\ reader.pc = "idle"
    /\ reader' = [pc |-> "walking", hash |-> hash, current |-> hash, chain |-> <<>>]
    /\ history' = {ext}
    /\ UNCHANGED <<storeVars, writes, txn, gateVars, nodeVars, raceVars, cryptoVars, coreVars>>

\* one turn of GetChain's loop: GetExtension(current) in a transaction of its
\* own; a record is prepended and its Parent is next, no record ends the loop
\* and GetChain returns the chain
GetChainStep ==
    /\ reader.pc = "walking"
    /\ LET got == GetExtension(reader.current)
       IN  reader' = IF got.err = ErrExtensionNotFound
                     THEN [reader EXCEPT !.pc = "returned"]
                     ELSE [reader EXCEPT !.chain = <<got.rec>> \o @,
                                         !.current = got.rec.Parent]
    /\ UNCHANGED <<storeVars, history, writes, txn, gateVars, nodeVars, raceVars, cryptoVars, coreVars>>

NextRead ==
    \/ \E parent \in Hashes, child \in Hashes, delta \in Data :
           WriterAddExtension(parent, child, delta)
    \/ \E hash \in Hashes : GetChainBegin(hash)
    \/ GetChainStep

SpecRead == Init /\ [][NextRead]_vars

----------------------------------------------------------------------------
(* crypto: the functions of the package, called on bounded inputs *)

\* elements in the lists handed to HashSet
MaxLen == 4

\* lists of at most n elements
ElementLists(n) == UNION { [1 .. k -> Data] : k \in 0 .. n }

\* integers handed to NewHash: negative ones, residues, and values above Prime
Values == (0 - Prime) .. (2 * Prime)

\* strings handed to FromHex: what Hex and String return, and others: empty,
\* a bare prefix, not hexadecimal, short, upper case, negative, prefixed
HexStrings ==
    { HashHex(h) : h \in Hashes } \cup { HashString(h) : h \in Hashes } \cup
    { <<>>, <<"0", "x">>, <<"z">>, <<"f", "f">>, <<"F", "F">>, <<"-", "1">>,
      <<"0", "x", "1", "0">> }

\* byte strings handed to FromBytes: what Bytes returns, and others
ByteStrings ==
    { HashBytes(h) : h \in Hashes } \cup { <<>>, <<1, 0>>, <<255>>, <<100>> }

otherVars == <<storeVars, txn, gateVars, nodeVars, raceVars, readVars, coreVars>>

NewHashCall(value) ==
    /\ cr' = [op |-> "NewHash", value |-> value, h |-> NewHash(value)]
    /\ UNCHANGED otherVars

HashElementCall(data) ==
    /\ cr' = [op |-> "HashElement", data |-> data, h |-> HashElement(data)]
    /\ UNCHANGED otherVars

HashSetCall(elements) ==
    /\ cr' = [op |-> "HashSet", elements |-> elements, h |-> HashSet(elements)]
    /\ UNCHANGED otherVars

ExtendCall(oldHash, newElement) ==
    /\ cr' = [op |-> "Extend", oldHash |-> oldHash, newElement |-> newElement,
              h |-> Extend(oldHash, newElement)]
    /\ UNCHANGED otherVars

CombineCall(h1, h2) ==
    /\ cr' = [op |-> "Combine", h1 |-> h1, h2 |-> h2, h |-> Combine(h1, h2)]
    /\ UNCHANGED otherVars

\* HashSet of two lists, then Combine of the two hashes
CombineSetsCall(a, b) ==
    /\ Len(a) + Len(b) <= MaxLen
    /\ cr' = [op |-> "Combine of HashSets", a |-> a, b |-> b,
              h |-> Combine(HashSet(a), HashSet(b))]
    /\ UNCHANGED otherVars

VerifyExtensionCall(oldHash, newHash, newElement) ==
    /\ cr' = [op |-> "VerifyExtension", oldHash |-> oldHash, newHash |-> newHash,
              newElement |-> newElement,
              valid |-> VerifyExtension(oldHash, newHash, newElement)]
    /\ UNCHANGED otherVars

BytesCall(h) ==
    /\ cr' = [op |-> "Bytes", h |-> h, bytes |-> HashBytes(h)]
    /\ UNCHANGED otherVars

HexCall(h) ==
    /\ cr' = [op |-> "Hex", h |-> h, hex |-> HashHex(h)]
    /\ UNCHANGED otherVars

FromHexCall(hexStr) ==
    /\ cr' = [op |-> "FromHex", hexStr |-> hexStr, got |-> FromHex(hexStr)]
    /\ UNCHANGED otherVars

FromBytesCall(data) ==
    /\ cr' = [op |-> "FromBytes", data |-> data, h |-> FromBytes(data)]
    /\ UNCHANGED otherVars

NextCrypto ==
    \/ \E value \in Values : NewHashCall(value)
    \/ \E data \in Data \cup {<<>>} : HashElementCall(data)
    \/ \E elements \in ElementLists(MaxLen) : HashSetCall(elements)
    \/ \E oldHash \in Hashes, newElement \in Data : ExtendCall(oldHash, newElement)
    \/ \E h1 \in Hashes, h2 \in Hashes : CombineCall(h1, h2)
    \/ \E a \in ElementLists(MaxLen), b \in ElementLists(MaxLen) : CombineSetsCall(a, b)
    \/ \E oldHash \in Hashes, newHash \in Hashes, newElement \in Data :
           VerifyExtensionCall(oldHash, newHash, newElement)
    \/ \E h \in Hashes : BytesCall(h)
    \/ \E h \in Hashes : HexCall(h)
    \/ \E hexStr \in HexStrings : FromHexCall(hexStr)
    \/ \E data \in ByteStrings : FromBytesCall(data)

SpecCrypto == Init /\ [][NextCrypto]_vars

----------------------------------------------------------------------------
(* semantic: features and the similarity kernel.  Texts are sequences of      *)
(* ASCII bytes; scores and weights are fixed-point integers, 1.0 = Scale.     *)

Scale == 1000

\* strings.ToLower on an ASCII byte
ToLower(b) == IF b \in 65 .. 90 THEN b + 32 ELSE b

\* unicode.IsLetter(r) || unicode.IsNumber(r) on an ASCII byte
IsLetterOrNumber(b) == b \in (48 .. 57) \cup (65 .. 90) \cup (97 .. 122)

\* the loop of semantic.Tokenize
RECURSIVE TokenizeFrom(_, _, _, _)
TokenizeFrom(text, i, currentWord, words) ==
    IF i > Len(text)
    THEN IF Len(currentWord) > 0 THEN Append(words, currentWord) ELSE words
    ELSE LET r == ToLower(text[i])
         IN  IF IsLetterOrNumber(r)
             THEN TokenizeFrom(text, i + 1, Append(currentWord, r), words)
             ELSE IF Len(currentWord) > 0
                  THEN TokenizeFrom(text, i + 1, <<>>, Append(words, currentWord))
                  ELSE TokenizeFrom(text, i + 1, <<>>, words)

\* semantic.Tokenize
Tokenize(text) == TokenizeFrom(text, 1, <<>>, <<>>)

\* semantic.GenerateNgrams: the set of lower-cased substrings of length n
GenerateNgrams(text, n) ==
    LET lower == [i \in 1 .. Len(text) |-> ToLower(text[i])]
    IN  IF Len(lower) < n THEN { lower }
        ELSE { SubSeq(lower, i, i + n - 1) : i \in 1 .. (Len(lower) - n + 1) }

\* semantic.ComputeTF: count / total for every distinct word
ComputeTF(words) ==
    [ w \in ToSet(words) |->
        (Cardinality({ i \in 1 .. Len(words) : words[i] = w }) * Scale) \div Len(words) ]

\* a nil *semantic.Features
NilFeatures == [ok |-> FALSE]

\* semantic.ExtractFeatures (TopKeywords is display only)
ExtractFeatures(content) ==
    LET words == Tokenize(content)
        tf    == ComputeTF(words)
    IN  [ok |-> TRUE, TFIDF |-> tf, Ngrams |-> GenerateNgrams(content, 3),
         WordCount |-> Len(words), CharCount |-> Len(content),
         UniqueWords |-> Cardinality(DOMAIN tf)]

\* a[k] of a Go map: the zero value when the key is absent
MapGet(m, k) == IF k \in DOMAIN m THEN m[k] ELSE 0

RECURSIVE SumOver(_, _)
SumOver(keys, f) ==
    IF keys = {} THEN 0
    ELSE LET k == CHOOSE x \in keys : TRUE
         IN  f[k] + SumOver(keys \ {k}, f)

\* math.Sqrt of a value scaled by Scale * Scale, as a value scaled by Scale
RECURSIVE SqrtBetween(_, _, _)
SqrtBetween(n, lo, hi) ==
    IF lo >= hi THEN lo
    ELSE LET mid == (lo + hi + 1) \div 2
         IN  IF mid * mid <= n THEN SqrtBetween(n, mid, hi)
             ELSE SqrtBetween(n, lo, mid - 1)

Sqrt(n) == SqrtBetween(n, 0, Scale)

\* semantic.CosineSimilarity
CosineSimilarity(a, b) ==
    LET allKeys    == DOMAIN a \cup DOMAIN b
        dotProduct == SumOver(allKeys, [k \in allKeys |-> MapGet(a, k) * MapGet(b, k)])
        magA       == Sqrt(SumOver(allKeys, [k \in allKeys |-> MapGet(a, k) * MapGet(a, k)]))
        magB       == Sqrt(SumOver(allKeys, [k \in allKeys |-> MapGet(b, k) * MapGet(b, k)]))
    IN  IF magA = 0 \/ magB = 0 THEN 0
        ELSE (dotProduct * Scale) \div (magA * magB)

\* semantic.JaccardSimilarity
JaccardSimilarity(a, b) ==
    IF a = {} /\ b = {} THEN Scale
    ELSE (Cardinality(a \cap b) * Scale) \div Cardinality(a \cup b)

Abs(x) == IF x < 0 THEN -x ELSE x

Max(x, y) == IF x >= y THEN x ELSE y

Min(x, y) == IF x <= y THEN x ELSE y

\* semantic.StructuralSimilarity
StructuralSimilarity(a, b) ==
    LET wordCountDiff   == Abs(a.WordCount - b.WordCount)
        maxWordCount    == Max(a.WordCount, b.WordCount)
        uniqueWordsDiff == Abs(a.UniqueWords - b.UniqueWords)
        maxUniqueWords  == Max(a.UniqueWords, b.UniqueWords)
        similarities    ==
            (IF maxWordCount > 0
             THEN << Scale - (wordCountDiff * Scale) \div maxWordCount >> ELSE <<>>)
            \o
            (IF maxUniqueWords > 0
             THEN << Scale - (uniqueWordsDiff * Scale) \div maxUniqueWords >> ELSE <<>>)
    IN  IF maxWordCount = 0 /\ maxUniqueWords = 0 THEN Scale
        ELSE SumOver(DOMAIN similarities, similarities) \div Len(similarities)

\* semantic.DefaultParams: weights 0.6 / 0.3 / 0.1, threshold 0.5
DefaultParams ==
    [WeightSemantic |-> 600, WeightLexical |-> 300, WeightStructural |-> 100,
     Threshold |-> 500]

\* the parameters of the gatekeeper tests with a lower threshold (0.3)
LowThresholdParams == [DefaultParams EXCEPT !.Threshold = 300]

\* KernelParams.Normalize
Normalize(p) ==
    LET total == p.WeightSemantic + p.WeightLexical + p.WeightStructural
    IN  IF total = 0 THEN DefaultParams
        ELSE [WeightSemantic   |-> (p.WeightSemantic * Scale) \div total,
              WeightLexical    |-> (p.WeightLexical * Scale) \div total,
              WeightStructural |-> (p.WeightStructural * Scale) \div total,
              Threshold        |-> p.Threshold]

\* the outcome of dereferencing a nil *Features: the call panics
Panic == -1

\* semantic.Similarity; a.TFIDF and b.TFIDF are read through the pointers
Similarity(a, b, params) ==
    IF ~a.ok \/ ~b.ok THEN Panic
    ELSE LET np         == Normalize(params)
             semantic   == CosineSimilarity(a.TFIDF, b.TFIDF)
             lexical    == JaccardSimilarity(a.Ngrams, b.Ngrams)
             structural == StructuralSimilarity(a, b)
             score      == (np.WeightSemantic * semantic
                            + np.WeightLexical * lexical
                            + np.WeightStructural * structural) \div Scale
         IN  Max(0, Min(Scale, score))

\* semantic.RankedResult
RankedResult(features, similarity, index) ==
    [Features |-> features, Similarity |-> similarity, Index |-> index]

\* results[i], results[j] = results[j], results[i]
Swap(results, i, j) == [results EXCEPT ![i] = results[j], ![j] = results[i]]

\* a sort whose exchange moves the scores and leaves the rest of the entries
SortRankedScoresOnly(results, i, j) ==
    [results EXCEPT ![i].Similarity = results[j].Similarity,
                    ![j].Similarity = results[i].Similarity]

\* the exchange of the inner loop of RankBySimilarity
SortRankedSwap(results, i, j) == Swap(results, i, j)

\* the inner loop of RankBySimilarity: j from i + 1 to the end
RECURSIVE SortRankedInner(_, _, _)
SortRankedInner(results, i, j) ==
    IF j > Len(results) THEN results
    ELSE SortRankedInner(IF results[j].Similarity > results[i].Similarity
                         THEN SortRankedSwap(results, i, j) ELSE results,
                         i, j + 1)

\* the outer loop of RankBySimilarity: i from 0 to the end
RECURSIVE SortRanked(_, _)
SortRanked(results, i) ==
    IF i > Len(results) THEN results
    ELSE SortRanked(SortRankedInner(results, i, i + 1), i + 1)

\* semantic.RankBySimilarity; Index is the 0-based position in candidates
RankBySimilarity(query, candidates, params) ==
    SortRanked([i \in 1 .. Len(candidates) |->
                   RankedResult(candidates[i],
                                Similarity(query, candidates[i], params), i - 1)],
               1)

\* candidates handed to one RankBySimilarity call
MaxCandidates == 3

\* contents whose features are compared: empty, a blank (no token), "d", "e",
\* "d e"
KernelTexts == { <<>>, <<32>>, <<100>>, <<101>>, <<100, 32, 101>> }

KernelFeatures == { ExtractFeatures(t) : t \in KernelTexts }

\* kernel parameters of the callers: the default, and the lexical-only and
\* semantic-only weights of the kernel tests
KernelParamSets ==
    { DefaultParams,
      [WeightSemantic |-> 0, WeightLexical |-> 1000, WeightStructural |-> 0,
       Threshold |-> 500],
      [WeightSemantic |-> 1000, WeightLexical |-> 0, WeightStructural |-> 0,
       Threshold |-> 500] }

RECURSIVE CandidateLists(_)
CandidateLists(n) ==
    IF n = 0 THEN { <<>> }
    ELSE CandidateLists(n - 1)
             \cup { Append(l, f) : l \in { c \in CandidateLists(n - 1) : Len(c) = n - 1 },
                                   f \in KernelFeatures }

\* one call of the kernel is made in a behaviour
SimilarityCall(a, b, params) ==
    /\ cr.op = "none"
    /\ cr' = [op |-> "Similarity", a |-> a, b |-> b, params |-> params,
              score |-> Similarity(a, b, params)]
    /\ UNCHANGED otherVars

RankBySimilarityCall(query, candidates, params) ==
    /\ cr.op = "none"
    /\ cr' = [op |-> "RankBySimilarity", query |-> query, candidates |-> candidates,
              params |-> params,
              results |-> RankBySimilarity(query, candidates, params)]
    /\ UNCHANGED otherVars

NextKernel ==
    \/ \E a \in KernelFeatures, b \in KernelFeatures, params \in KernelParamSets :
           SimilarityCall(a, b, params)
    \/ \E query \in KernelFeatures, candidates \in CandidateLists(MaxCandidates),
          params \in KernelParamSets :
           RankBySimilarityCall(query, candidates, params)

SpecKernel == Init /\ [][NextKernel]_vars

----------------------------------------------------------------------------
(* core: dual hashes, extensions, queries and the gatekeeper *)

\* core.DualHash
DualHash(crypto, semantic) == [Crypto |-> crypto, Semantic |-> semantic]

\* core.Extension: ParentHash, NewData, NewHash
Extension(parentHash, newData, newHash) ==
    [ParentHash |-> parentHash, NewData |-> newData, NewHash |-> newHash]

\* Extension.VerifyCrypto
VerifyCrypto(e) == VerifyExtension(e.ParentHash.Crypto, e.NewHash.Crypto, e.NewData)

\* Extension.ComputeSemanticSimilarity
ComputeSemanticSimilarity(e, query, params) == Similarity(e.NewHash.Semantic, query, params)

\* core.NewQuery
NewQuery(content, params) == [Features |-> ExtractFeatures(content), Params |-> params]

\* the zero GatekeeperDecision
NoDecision ==
    [ShouldForward |-> FALSE, Reason |-> "", CryptoValid |-> FALSE,
     SemanticRelevant |-> FALSE, SimilarityScore |-> 0]

\* Gatekeeper.ShouldForward on the counters g: the counters it leaves behind, the
\* decision it returns, or the panic it raises (after TotalSeen was incremented)
GatekeeperShouldForward(g, e, query) ==
    LET g1 == [g EXCEPT !.TotalSeen = @ + 1]
    IN  IF ~VerifyCrypto(e)
        THEN [panic |-> FALSE,
              gk |-> [g1 EXCEPT !.CryptoBlocked = @ + 1],
              decision |-> [NoDecision EXCEPT
                               !.Reason = "crypto verification failed: invalid extension"]]
        ELSE LET score == ComputeSemanticSimilarity(e, query.Features, query.Params)
             IN  IF score = Panic
                 THEN [panic |-> TRUE, gk |-> g1, decision |-> NoDecision]
                 ELSE IF ~(score >= query.Params.Threshold)
                 THEN [panic |-> FALSE,
                       gk |-> [g1 EXCEPT !.SemanticBlocked = @ + 1],
                       decision |-> [NoDecision EXCEPT
                                        !.CryptoValid = TRUE,
                                        !.SimilarityScore = score,
                                        !.Reason = "semantic filter: similarity < threshold"]]
                 ELSE [panic |-> FALSE,
                       gk |-> [g1 EXCEPT !.Forwarded = @ + 1],
                       decision |-> [NoDecision EXCEPT
                                        !.ShouldForward = TRUE,
                                        !.CryptoValid = TRUE,
                                        !.SemanticRelevant = TRUE,
                                        !.SimilarityScore = score,
                                        !.Reason = "passed: valid extension"]]

\* Gatekeeper operations issued in one behaviour
MaxCalls == 4

\* texts whose features appear in extensions and queries: "d", "e", "d e"
Texts == { <<100>>, <<101>>, <<100, 32, 101>> }

\* the Semantic field of a received child hash: features of a text, or nil
FeatureValues == { ExtractFeatures(t) : t \in Texts } \cup { NilFeatures }

\* extensions as a caller can hand them to the gatekeeper: any parent hash, delta
\* and child hash, with any child features
Extensions ==
    { Extension(DualHash(p, ExtractFeatures(<<>>)), d, DualHash(c, f)) :
          p \in Hashes, d \in Data, c \in Hashes, f \in FeatureValues }

Queries == { NewQuery(t, params) : t \in Texts, params \in {DefaultParams, LowThresholdParams} }

\* Gatekeeper.ShouldForward
ShouldForward(e, query) ==
    /\ ~panicked /\ gcalls < MaxCalls
    /\ LET r == GatekeeperShouldForward(gk, e, query)
       IN  /\ gk' = r.gk
           /\ panicked' = r.panic
           /\ gret' = IF r.panic THEN [op |-> "ShouldForward", panic |-> TRUE]
                      ELSE [op |-> "ShouldForward", panic |-> FALSE, decision |-> r.decision]
    /\ gcalls' = gcalls + 1
    /\ UNCHANGED <<storeVars, txn, nodeVars, raceVars, readVars, cryptoVars, coreVars>>

\* Gatekeeper.ShouldForwardSimple: ShouldForward(ext, query).ShouldForward
ShouldForwardSimple(e, query) ==
    /\ ~panicked /\ gcalls < MaxCalls
    /\ LET r == GatekeeperShouldForward(gk, e, query)
       IN  /\ gk' = r.gk
           /\ panicked' = r.panic
           /\ gret' = IF r.panic THEN [op |-> "ShouldForwardSimple", panic |-> TRUE]
                      ELSE [op |-> "ShouldForwardSimple", panic |-> FALSE,
                            forward |-> r.decision.ShouldForward]
    /\ gcalls' = gcalls + 1
    /\ UNCHANGED <<storeVars, txn, nodeVars, raceVars, readVars, cryptoVars, coreVars>>

\* Gatekeeper.GetStats
GetStats ==
    /\ ~panicked /\ gcalls < MaxCalls
    /\ gret' = [op |-> "GetStats", panic |-> FALSE,
                stats |-> [TotalSeen |-> gk.TotalSeen,
                           CryptoBlocked |-> gk.CryptoBlocked,
                           SemanticBlocked |-> gk.SemanticBlocked,
                           Forwarded |-> gk.Forwarded,
                           BlockRate |->
                               IF gk.TotalSeen > 0
                               THEN ((gk.CryptoBlocked + gk.SemanticBlocked) * Scale)
                                        \div gk.TotalSeen
                               ELSE 0]]
    /\ gcalls' = gcalls + 1
    /\ UNCHANGED <<storeVars, txn, gk, panicked, nodeVars, raceVars, readVars, cryptoVars, coreVars>>

\* Gatekeeper.Reset
Reset ==
    /\ ~panicked /\ gcalls < MaxCalls
    /\ gk' = NewGatekeeper
    /\ gret' = [op |-> "Reset", panic |-> FALSE]
    /\ gcalls' = gcalls + 1
    /\ UNCHANGED <<storeVars, txn, panicked, nodeVars, raceVars, readVars, cryptoVars, coreVars>>

NextGate ==
    \/ \E e \in Extensions, query \in Queries : ShouldForward(e, query)
    \/ \E e \in Extensions, query \in Queries : ShouldForwardSimple(e, query)
    \/ GetStats
    \/ Reset

SpecGate == Init /\ [][NextGate]_vars

----------------------------------------------------------------------------
(* core: ShouldForward called from several goroutines on one Gatekeeper.  The
   counters are plain ints and no lock is taken, so each gk.X++ is a load
   followed by a store and the calls interleave between the two. *)

\* ShouldForward calls each goroutine completes
MaxRaceCalls == 1

\* the goroutines
Threads == {"a", "b"}

\* what the goroutines call ShouldForward with: an extension of Zero by "d" with
\* the features of "d" and any child hash (one valid, the others not), against
\* the queries "d" and "e"
RaceExtensions ==
    { e \in Extensions :
          /\ e.ParentHash.Crypto = Zero
          /\ e.NewData = <<100>>
          /\ e.NewHash.Semantic = ExtractFeatures(<<100>>) }

RaceQueries == { NewQuery(t, DefaultParams) : t \in { <<100>>, <<101>> } }

\* the counter the call increments after TotalSeen, or "panic"
CounterOf(e, query) ==
    LET r == GatekeeperShouldForward(NewGatekeeper, e, query)
    IN  IF r.panic THEN "panic"
        ELSE CHOOSE c \in {"CryptoBlocked", "SemanticBlocked", "Forwarded"} :
                 r.gk[c] = 1

\* a goroutine enters ShouldForward(e, query)
Enter(t, e, query) ==
    /\ ~panicked
    /\ threads[t].pc = "idle" /\ threads[t].done < MaxRaceCalls
    /\ threads' = [threads EXCEPT ![t] =
                      [pc |-> "load TotalSeen", done |-> @.done, e |-> e,
                       query |-> query]]
    /\ UNCHANGED <<storeVars, txn, gateVars, nodeVars, readVars, cryptoVars, coreVars>>

\* gk.TotalSeen++, the load
LoadTotalSeen(t) ==
    /\ threads[t].pc = "load TotalSeen"
    /\ threads' = [threads EXCEPT ![t] =
                      [pc |-> "store TotalSeen", done |-> @.done, e |-> @.e,
                       query |-> @.query, tmp |-> gk.TotalSeen]]
    /\ UNCHANGED <<storeVars, txn, gateVars, nodeVars, readVars, cryptoVars, coreVars>>

\* gk.TotalSeen++, the store; then the two gates, which read no shared state
StoreTotalSeen(t) ==
    /\ threads[t].pc = "store TotalSeen"
    /\ gk' = [gk EXCEPT !.TotalSeen = threads[t].tmp + 1]
    /\ LET counter == CounterOf(threads[t].e, threads[t].query)
       IN  /\ panicked' = (counter = "panic")
           /\ threads' = [threads EXCEPT ![t] =
                             IF counter = "panic"
                             THEN [pc |-> "panicked", done |-> @.done]
                             ELSE [pc |-> "load counter", done |-> @.done,
                                   counter |-> counter]]
    /\ UNCHANGED <<storeVars, txn, gret, gcalls, nodeVars, readVars, cryptoVars, coreVars>>

\* gk.CryptoBlocked++, gk.SemanticBlocked++ or gk.Forwarded++, the load
LoadCounter(t) ==
    /\ threads[t].pc = "load counter"
    /\ threads' = [threads EXCEPT ![t] =
                      [pc |-> "store counter", done |-> @.done,
                       counter |-> @.counter, tmp |-> gk[@.counter]]]
    /\ UNCHANGED <<storeVars, txn, gateVars, nodeVars, readVars, cryptoVars, coreVars>>

\* the store of that increment, and the return of the decision
StoreCounter(t) ==
    /\ threads[t].pc = "store counter"
    /\ gk' = [gk EXCEPT ![threads[t].counter] = threads[t].tmp + 1]
    /\ threads' = [threads EXCEPT ![t] = [pc |-> "idle", done |-> @.done + 1]]
    /\ UNCHANGED <<storeVars, txn, gret, gcalls, panicked, nodeVars, readVars, cryptoVars, coreVars>>

NextRace ==
    \/ \E t \in Threads, e \in RaceExtensions, query \in RaceQueries :
           Enter(t, e, query)
    \/ \E t \in Threads : LoadTotalSeen(t)
    \/ \E t \in Threads : StoreTotalSeen(t)
    \/ \E t \in Threads : LoadCounter(t)
    \/ \E t \in Threads : StoreCounter(t)

SpecRace == Init /\ [][NextRace]_vars

----------------------------------------------------------------------------
(* network: Node.GetStats on the CLI goroutine beside the listen goroutine.   *)
(* The listen goroutine ("a") is the only caller of ShouldForward; the CLI    *)
(* goroutine ("b") reads the four counters, one load each, with no lock.      *)

\* the fields of GatekeeperStats in the order Gatekeeper.GetStats loads them
StatFields == <<"TotalSeen", "CryptoBlocked", "SemanticBlocked", "Forwarded">>

\* the stats command calls node.GetStats
GetStatsBegin(t) ==
    /\ ~panicked
    /\ threads[t].pc = "idle" /\ threads[t].done < MaxRaceCalls
    /\ threads' = [threads EXCEPT ![t] =
                      [pc |-> "load stats", done |-> @.done, loaded |-> <<>>]]
    /\ UNCHANGED <<storeVars, txn, gateVars, nodeVars, readVars, cryptoVars, coreVars>>

\* one load of Gatekeeper.GetStats; after the last one the snapshot is returned
GetStatsLoad(t) ==
    /\ threads[t].pc = "load stats"
    /\ LET loaded == Append(threads[t].loaded, gk[StatFields[Len(threads[t].loaded) + 1]])
       IN  IF Len(loaded) < Len(StatFields)
           THEN /\ threads' = [threads EXCEPT ![t] =
                                  [pc |-> "load stats", done |-> @.done,
                                   loaded |-> loaded]]
                /\ UNCHANGED gret
           ELSE /\ threads' = [threads EXCEPT ![t] =
                                  [pc |-> "idle", done |-> @.done + 1]]
                /\ gret' = [op |-> "Node.GetStats",
                            stats |-> [TotalSeen |-> loaded[1],
                                       CryptoBlocked |-> loaded[2],
                                       SemanticBlocked |-> loaded[3],
                                       Forwarded |-> loaded[4]]]
    /\ UNCHANGED <<storeVars, txn, gk, gcalls, panicked, nodeVars, readVars, cryptoVars, coreVars>>

NextStats ==
    \/ \E e \in RaceExtensions, query \in RaceQueries : Enter("a", e, query)
    \/ LoadTotalSeen("a")
    \/ StoreTotalSeen("a")
    \/ LoadCounter("a")
    \/ StoreCounter("a")
    \/ GetStatsBegin("b")
    \/ GetStatsLoad("b")

SpecStats == Init /\ [][NextStats]_vars

----------------------------------------------------------------------------
(* storage: the read operations of Store and the audit, beside its writes *)

\* a Get that reports no error for an absent block
BlockStoreGetNoError(blks, hash) ==
    [block |-> IF blks[hash].ok THEN blks[hash] ELSE Block(<<>>), err |-> ErrNone]

\* BlockStore.Get
BlockStoreGet(blks, hash) ==
    IF blks[hash].ok THEN [block |-> blks[hash], err |-> ErrNone]
    ELSE [block |-> NoBlock, err |-> ErrBlockNotFound]

\* BlockStore.Has: badger.ErrKeyNotFound is answered with (false, nil)
BlockStoreHas(blks, hash) == [has |-> blks[hash].ok, err |-> ErrNone]

\* BlockStore.Count
BlockStoreCount(blks) == Cardinality(BlockStoreList(blks))

\* BlockStore.TotalSize
BlockStoreTotalSize(blks) ==
    SumOver(BlockStoreList(blks), [h \in Hashes |-> blks[h].Size])

\* the loop of Store.GetStats and of VerifyStorageIntegrity over the listed
\* blocks: the lengths of their children lists, added up
CountExtensions(blks, chl) ==
    SumOver(BlockStoreList(blks), [h \in Hashes |-> Len(chl[h])])

\* the inner loop of VerifyStorageIntegrity: the entries of the children lists
\* of the listed blocks whose VerifyExtension result is not valid
CountInvalid(blks, chl) ==
    SumOver(BlockStoreList(blks),
            [h \in Hashes |->
                Cardinality({ i \in 1 .. Len(chl[h]) :
                                ~GraphVerifyExtension(h, chl[h][i]).result.Valid })])

\* Store.GetContent
GetContent(hash) ==
    /\ ~hung /\ ops < MaxOps
    /\ LET got == BlockStoreGet(blocks, hash)
       IN  ret' = [op |-> "GetContent", hash |-> hash,
                   data |-> IF got.err = ErrNone THEN Bytes(got.block.Data) ELSE NilBytes,
                   err |-> got.err]
    /\ ops' = ops + 1
    /\ UNCHANGED <<blocks, ext, children, rootIdx, hung, txn, gateVars, nodeVars,
                   raceVars, readVars, cryptoVars, coreVars>>

\* Store.HasContent
HasContent(hash) ==
    /\ ~hung /\ ops < MaxOps
    /\ LET got == BlockStoreHas(blocks, hash)
       IN  ret' = [op |-> "HasContent", hash |-> hash, has |-> got.has, err |-> got.err]
    /\ ops' = ops + 1
    /\ UNCHANGED <<blocks, ext, children, rootIdx, hung, txn, gateVars, nodeVars,
                   raceVars, readVars, cryptoVars, coreVars>>

\* Store.GetExtension
StoreGetExtension(hash) ==
    /\ ~hung /\ ops < MaxOps
    /\ LET got == GetExtension(hash)
       IN  ret' = [op |-> "GetExtension", hash |-> hash, rec |-> got.rec, err |-> got.err]
    /\ ops' = ops + 1
    /\ UNCHANGED <<blocks, ext, children, rootIdx, hung, txn, gateVars, nodeVars,
                   raceVars, readVars, cryptoVars, coreVars>>

\* Store.GetStats
StoreGetStats ==
    /\ ~hung /\ ops < MaxOps
    /\ ret' = [op |-> "GetStats", BlockCount |-> BlockStoreCount(blocks),
               ExtensionCount |-> CountExtensions(blocks, children),
               TotalSize |-> BlockStoreTotalSize(blocks), err |-> ErrNone]
    /\ ops' = ops + 1
    /\ UNCHANGED <<blocks, ext, children, rootIdx, hung, txn, gateVars, nodeVars,
                   raceVars, readVars, cryptoVars, coreVars>>

\* ExtensionGraph.VerifyStorageIntegrity: BrokenChains and OrphanedBlocks are
\* never assigned; Errors gets one line per invalid extension
VerifyStorageIntegrity ==
    /\ ~hung /\ ops < MaxOps
    /\ ret' = [op |-> "VerifyStorageIntegrity",
               report |-> [TotalBlocks |-> Cardinality(BlockStoreList(blocks)),
                           TotalExtensions |-> CountExtensions(blocks, children),
                           BrokenChains |-> 0,
                           OrphanedBlocks |-> 0,
                           InvalidExtensions |-> CountInvalid(blocks, children),
                           Errors |-> CountInvalid(blocks, children)],
               err |-> ErrNone]
    /\ ops' = ops + 1
    /\ UNCHANGED <<blocks, ext, children, rootIdx, hung, txn, gateVars, nodeVars,
                   raceVars, readVars, cryptoVars, coreVars>>

NextAudit ==
    \/ NextStore
    \/ \E hash \in Hashes : GetContent(hash)
    \/ \E hash \in Hashes : HasContent(hash)
    \/ \E hash \in Hashes : StoreGetExtension(hash)
    \/ StoreGetStats
    \/ VerifyStorageIntegrity

SpecAudit == Init /\ [][NextAudit]_vars

----------------------------------------------------------------------------
(* network and core: nodes that gate received extensions by their interests *)

\* extensions delivered to a node in one behaviour
MaxDeliveries == 1

\* interest lists of a node: none, "d", and "e" before "d"
InterestLists == { <<>>, << <<100>> >>, << <<101>>, <<100>> >> }

\* configurations of a node: its interests and kernel parameters
NodeConfigs ==
    { [Interests |-> i, Params |-> p] :
          i \in InterestLists, p \in {DefaultParams, LowThresholdParams} }

\* extensions a node receives: announcements on the parent Zero (the parent
\* Node.Publish announces) with any data, child hash and child features, so
\* crypto-valid and crypto-invalid ones, with and without features
ReceivedExtensions == { e \in Extensions : e.ParentHash.Crypto = Zero }

\* absent key of Node.content
NoContent == [ok |-> FALSE]

\* core.Content
Content(data, crypto, semantic) ==
    [ok |-> TRUE, Data |-> data, Crypto |-> crypto, Semantic |-> semantic]

\* a loop that consults the first interest only
InterestLoopFirstOnly(g, interests, params, i, e) ==
    IF i > Len(interests)
    THEN [gk |-> g, forward |-> FALSE, panic |-> FALSE]
    ELSE LET r == GatekeeperShouldForward(g, e, NewQuery(interests[i], params))
         IN  [gk |-> r.gk, panic |-> r.panic,
              forward |-> ~r.panic /\ r.decision.ShouldForward]

\* the loop over the interests in Node.handleExtension and
\* SimulatedNode.ProcessExtension: ShouldForward per interest, in order, until
\* one decision says forward; a panic ends the loop
RECURSIVE InterestLoop(_, _, _, _, _)
InterestLoop(g, interests, params, i, e) ==
    IF i > Len(interests)
    THEN [gk |-> g, forward |-> FALSE, panic |-> FALSE]
    ELSE LET r == GatekeeperShouldForward(g, e, NewQuery(interests[i], params))
         IN  IF r.panic THEN [gk |-> r.gk, forward |-> FALSE, panic |-> TRUE]
             ELSE IF r.decision.ShouldForward
             THEN [gk |-> r.gk, forward |-> TRUE, panic |-> FALSE]
             ELSE InterestLoop(r.gk, interests, params, i + 1, e)

\* network.NewNode
NewNode(config) ==
    /\ ~node.created
    /\ node' = [created |-> TRUE, interests |-> config.Interests,
                params |-> config.Params, gatekeeper |-> NewGatekeeper,
                content |-> [h \in Hashes |-> NoContent]]
    /\ UNCHANGED <<storeVars, txn, gateVars, simulator, delivered, nret, raceVars, readVars, cryptoVars, coreVars>>

\* core.NewSimulatedNode followed by GossipSimulator.AddNode; the simulator of
\* a behaviour is given one node
AddNode(config) ==
    /\ simulator = <<>>
    /\ simulator' = Append(simulator,
                        [Interests |-> config.Interests, Params |-> config.Params,
                           Gatekeeper |-> NewGatekeeper, Received |-> <<>>])
    /\ UNCHANGED <<storeVars, txn, gateVars, node, delivered, nret, raceVars, readVars, cryptoVars, coreVars>>

\* Node.handleExtension, run by the listen goroutine on an extension message:
\* the first interest that forwards the extension stores it in the content map
HandleExtension(e) ==
    /\ node.created /\ ~panicked /\ delivered < MaxDeliveries
    /\ LET r == InterestLoop(node.gatekeeper, node.interests, node.params, 1, e)
       IN  /\ node' = [node EXCEPT
                          !.gatekeeper = r.gk,
                          !.content = IF r.forward
                                      THEN [@ EXCEPT ![e.NewHash.Crypto] =
                                               Content(e.NewData, e.NewHash.Crypto,
                                                       e.NewHash.Semantic)]
                                      ELSE @]
           /\ panicked' = r.panic
    /\ nret' = [op |-> "handleExtension", e |-> e]
    /\ delivered' = delivered + 1
    /\ UNCHANGED <<storeVars, txn, gk, gret, gcalls, simulator, raceVars, readVars, cryptoVars, coreVars>>

\* SimulatedNode.ProcessExtension on the i-th node of the simulator: the first
\* interest that forwards the extension appends it to Received and returns true
ProcessExtension(i, e) ==
    /\ i \in 1 .. Len(simulator) /\ ~panicked /\ delivered < MaxDeliveries
    /\ LET n == simulator[i]
           r == InterestLoop(n.Gatekeeper, n.Interests, n.Params, 1, e)
       IN  /\ simulator' = [simulator EXCEPT ![i] =
                               [n EXCEPT
                                   !.Gatekeeper = r.gk,
                                   !.Received = IF r.forward THEN Append(@, e) ELSE @]]
           /\ panicked' = r.panic
           /\ nret' = [op |-> "ProcessExtension", i |-> i, e |-> e,
                       forward |-> r.forward]
    /\ delivered' = delivered + 1
    /\ UNCHANGED <<storeVars, txn, gk, gret, gcalls, node, raceVars, readVars, cryptoVars, coreVars>>

NextNode ==
    \/ \E config \in NodeConfigs : NewNode(config)
    \/ \E config \in NodeConfigs : AddNode(config)
    \/ \E e \in ReceivedExtensions : HandleExtension(e)
    \/ \E i \in 1 .. Len(simulator), e \in ReceivedExtensions : ProcessExtension(i, e)

SpecNode == Init /\ [][NextNode]_vars

----------------------------------------------------------------------------
(* core: the gossip simulator with several nodes *)

\* nodes of a simulation
MaxGossipNodes == 2

RECURSIVE ConfigLists(_)
ConfigLists(n) ==
    IF n = 0 THEN { <<>> }
    ELSE ConfigLists(n - 1)
             \cup { Append(l, c) : l \in { x \in ConfigLists(n - 1) : Len(x) = n - 1 },
                                   c \in NodeConfigs }

\* NewGossipSimulator, then NewSimulatedNode and AddNode for each configuration
NewGossipSimulator(configs) ==
    /\ simulator = <<>>
    /\ simulator' = [k \in 1 .. Len(configs) |->
                        [Interests |-> configs[k].Interests, Params |-> configs[k].Params,
                         Gatekeeper |-> NewGatekeeper, Received |-> <<>>]]
    /\ UNCHANGED <<storeVars, txn, gateVars, node, delivered, nret, raceVars, readVars, cryptoVars, coreVars>>

\* SimulatedNode.ProcessExtension of every node on its own state: the loop of
\* GossipSimulator.PropagateExtension hands each node the same extension and
\* a node touches no state but its own
ProcessEach(nodes, e) ==
    [i \in 1 .. Len(nodes) |->
        InterestLoop(nodes[i].Gatekeeper, nodes[i].Interests, nodes[i].Params, 1, e)]

\* the position at which the loop of PropagateExtension ends: the first node
\* that panics, or past the last node
LoopEnd(results) ==
    IF \E i \in 1 .. Len(results) : results[i].panic
    THEN CHOOSE i \in 1 .. Len(results) :
             /\ results[i].panic
             /\ \A k \in 1 .. i - 1 : ~results[k].panic
    ELSE Len(results) + 1

\* GossipSimulator.PropagateExtension: the nodes in order up to the end of the
\* loop; forwarded counts the nodes that returned true
PropagateExtension(e) ==
    /\ simulator # <<>> /\ ~panicked /\ delivered < MaxDeliveries
    /\ LET results == ProcessEach(simulator, e)
           end == LoopEnd(results)
       IN  /\ simulator' =
                  [i \in 1 .. Len(simulator) |->
                      IF i > end THEN simulator[i]
                      ELSE [simulator[i] EXCEPT
                               !.Gatekeeper = results[i].gk,
                               !.Received = IF results[i].forward
                                            THEN Append(@, e) ELSE @]]
           /\ panicked' = (end <= Len(simulator))
           /\ nret' = [op |-> "PropagateExtension", e |-> e,
                       forwarded |-> Cardinality({ i \in 1 .. Len(simulator) :
                                                     i < end /\ results[i].forward }),
                       panic |-> (end <= Len(simulator))]
    /\ delivered' = delivered + 1
    /\ UNCHANGED <<storeVars, txn, gk, gret, gcalls, node, raceVars, readVars, cryptoVars, coreVars>>

NextGossip ==
    \/ \E configs \in ConfigLists(MaxGossipNodes) \ { <<>> } : NewGossipSimulator(configs)
    \/ \E e \in ReceivedExtensions : PropagateExtension(e)

SpecGossip == Init /\ [][NextGossip]_vars

----------------------------------------------------------------------------
(* network: the messages a node reads from the extensions topic *)

\* network.ProtocolVersion
ProtocolVersion == "tera/1.0.0"

\* network.MessageType values
MessageTypeExtension == "extension"
MessageTypeQuery == "query"
MessageTypeQueryResponse == "query_response"

\* version strings on the wire: the protocol's and an older one
Versions == { ProtocolVersion, "tera/0.9.0" }

\* type strings on the wire: the three the protocol names and one it does not
MessageTypes ==
    { MessageTypeExtension, MessageTypeQuery, MessageTypeQueryResponse, "ping" }

\* network.ExtensionPayload as core.Extension is announced: hashes in hex
ExtensionPayload(e) ==
    [kind |-> "extension",
     ParentCrypto |-> HashHex(e.ParentHash.Crypto),
     ParentSemantic |-> e.ParentHash.Semantic,
     NewData |-> e.NewData,
     NewCrypto |-> HashHex(e.NewHash.Crypto),
     NewSemantic |-> e.NewHash.Semantic]

\* the ExtensionPayload json.Unmarshal leaves when the object has none of its
\* fields
EmptyExtensionPayload ==
    [kind |-> "extension", ParentCrypto |-> <<>>, ParentSemantic |-> NilFeatures,
     NewData |-> <<>>, NewCrypto |-> <<>>, NewSemantic |-> NilFeatures]

\* extensions announced on the topic: the data "d" on the parent Zero with any
\* child hash and child features
AnnouncedExtensions == { e \in ReceivedExtensions : e.NewData = <<100>> }

\* payloads on the wire: extension announcements, a query object, and bytes
\* that are not JSON
Payloads ==
    { ExtensionPayload(e) : e \in AnnouncedExtensions }
        \cup { [kind |-> "query"], [kind |-> "garbage"] }

\* bytes read from the topic: a network.Message in JSON, or bytes that are not
\* JSON
RawMessages ==
    { [json |-> TRUE, Version |-> v, Type |-> t, Payload |-> p] :
          v \in Versions, t \in MessageTypes, p \in Payloads }
        \cup { [json |-> FALSE, Version |-> "", Type |-> "",
                Payload |-> [kind |-> "garbage"]] }

\* an UnmarshalMessage that accepts every version
UnmarshalMessageAnyVersion(data) ==
    IF ~data.json THEN [ok |-> FALSE, err |-> "unmarshal message"]
    ELSE [ok |-> TRUE, msg |-> data, err |-> "nil"]

\* network.UnmarshalMessage
UnmarshalMessage(data) ==
    IF ~data.json THEN [ok |-> FALSE, err |-> "unmarshal message"]
    ELSE IF data.Version # ProtocolVersion
    THEN [ok |-> FALSE, err |-> "unsupported protocol version"]
    ELSE [ok |-> TRUE, msg |-> data, err |-> "nil"]

\* Message.GetExtensionPayload
GetExtensionPayload(m) ==
    IF m.Type # MessageTypeExtension
    THEN [ok |-> FALSE, err |-> "wrong message type"]
    ELSE IF m.Payload.kind = "garbage"
    THEN [ok |-> FALSE, err |-> "unmarshal extension payload"]
    ELSE [ok |-> TRUE, err |-> "nil",
          payload |-> IF m.Payload.kind = "extension" THEN m.Payload
                      ELSE EmptyExtensionPayload]

\* Message.GetQueryPayload
GetQueryPayload(m) ==
    IF m.Type # MessageTypeQuery
    THEN [ok |-> FALSE, err |-> "wrong message type"]
    ELSE IF m.Payload.kind = "garbage"
    THEN [ok |-> FALSE, err |-> "unmarshal query payload"]
    ELSE [ok |-> TRUE, err |-> "nil"]

\* Message.GetQueryResponsePayload
GetQueryResponsePayload(m) ==
    IF m.Type # MessageTypeQueryResponse
    THEN [ok |-> FALSE, err |-> "wrong message type"]
    ELSE IF m.Payload.kind = "garbage"
    THEN [ok |-> FALSE, err |-> "unmarshal query response payload"]
    ELSE [ok |-> TRUE, err |-> "nil"]

\* ExtensionPayload.ToExtension
ToExtension(ep) ==
    LET parentCrypto == FromHex(ep.ParentCrypto)
        newCrypto == FromHex(ep.NewCrypto)
    IN  IF ~parentCrypto.ok THEN [ok |-> FALSE, err |-> "parse parent crypto"]
        ELSE IF ~newCrypto.ok THEN [ok |-> FALSE, err |-> "parse new crypto"]
        ELSE [ok |-> TRUE, err |-> "nil",
              ext |-> Extension(DualHash(parentCrypto.h, ep.ParentSemantic),
                                ep.NewData,
                                DualHash(newCrypto.h, ep.NewSemantic))]

\* what Node.handleMessage does with the bytes: "drop" (the bytes are not a
\* message of this protocol version), "unknown" (no handler for the type),
\* "invalid" (the handler rejects the payload), "read" (handleQuery and
\* handleQueryResponse, which only read), or "gate" with the extension that
\* handleExtension hands to the interest loop
Dispatch(data) ==
    LET um == UnmarshalMessage(data)
    IN  IF ~um.ok THEN [to |-> "drop", err |-> um.err]
        ELSE IF um.msg.Type = MessageTypeExtension
        THEN LET gp == GetExtensionPayload(um.msg)
             IN  IF ~gp.ok THEN [to |-> "invalid", err |-> gp.err]
                 ELSE LET te == ToExtension(gp.payload)
                      IN  IF ~te.ok THEN [to |-> "invalid", err |-> te.err]
                          ELSE [to |-> "gate", err |-> "nil", ext |-> te.ext]
        ELSE IF um.msg.Type = MessageTypeQuery
        THEN IF GetQueryPayload(um.msg).ok THEN [to |-> "read", err |-> "nil"]
             ELSE [to |-> "invalid", err |-> GetQueryPayload(um.msg).err]
        ELSE IF um.msg.Type = MessageTypeQueryResponse
        THEN IF GetQueryResponsePayload(um.msg).ok THEN [to |-> "read", err |-> "nil"]
             ELSE [to |-> "invalid", err |-> GetQueryResponsePayload(um.msg).err]
        ELSE [to |-> "unknown", err |-> "nil"]

\* Node.handleMessage, run by the listen goroutine on the bytes of one pubsub
\* message: only an extension announcement that reaches the interest loop
\* changes the node
HandleMessage(data) ==
    /\ node.created /\ ~panicked /\ delivered < MaxDeliveries
    /\ LET d == Dispatch(data)
       IN  /\ IF d.to = "gate"
              THEN LET r == InterestLoop(node.gatekeeper, node.interests,
                                         node.params, 1, d.ext)
                   IN  /\ node' = [node EXCEPT
                                      !.gatekeeper = r.gk,
                                      !.content = IF r.forward
                                                  THEN [@ EXCEPT ![d.ext.NewHash.Crypto] =
                                                           Content(d.ext.NewData,
                                                                   d.ext.NewHash.Crypto,
                                                                   d.ext.NewHash.Semantic)]
                                                  ELSE @]
                       /\ panicked' = r.panic
              ELSE UNCHANGED <<node, panicked>>
           /\ nret' = [op |-> "handleMessage", data |-> data,
                       to |-> d.to, err |-> d.err]
    /\ delivered' = delivered + 1
    /\ UNCHANGED <<storeVars, txn, gk, gret, gcalls, simulator, raceVars, readVars, cryptoVars, coreVars>>

NextMessage ==
    \/ \E config \in NodeConfigs : NewNode(config)
    \/ \E data \in RawMessages : HandleMessage(data)

SpecMessage == Init /\ [][NextMessage]_vars

----------------------------------------------------------------------------
(* core: Content values and the byte slices behind them.  A []byte is a       *)
(* pointer to an array, a length and a capacity; append writes into the array *)
(* when the capacity allows and allocates a new array otherwise.              *)

\* Content values made in one behaviour
MaxContents == 3

\* spare capacity of an array: of the one a caller hands to NewContent, and of
\* the one append allocates
MaxSpare == 1

\* the zero bytes of the unused part of an array
RECURSIVE Zeros(_)
Zeros(n) == IF n = 0 THEN <<>> ELSE Append(Zeros(n - 1), 0)

\* a []byte: array buf of the heap, elements 1 .. len
Slice(buf, len) == [buf |-> buf, len |-> len]

\* the bytes of a slice
SliceBytes(heap, sl) == SubSeq(heap[sl.buf], 1, sl.len)

\* cap(sl)
SliceCap(heap, sl) == Len(heap[sl.buf])

\* append(sl, newData...): within the capacity the bytes are written behind
\* sl's elements in its own array; beyond it a new array with the given spare
\* capacity is allocated
AppendBytes(heap, sl, newData, spare) ==
    IF sl.len + Len(newData) <= SliceCap(heap, sl)
    THEN [heap |-> [heap EXCEPT ![sl.buf] =
                       [k \in 1 .. Len(@) |->
                           IF k > sl.len /\ k <= sl.len + Len(newData)
                           THEN newData[k - sl.len] ELSE @[k]]],
          slice |-> Slice(sl.buf, sl.len + Len(newData))]
    ELSE [heap |-> Append(heap, SliceBytes(heap, sl) \o newData \o Zeros(spare)),
          slice |-> Slice(Len(heap) + 1, sl.len + Len(newData))]

\* &semantic.Features{}
EmptyFeatures ==
    [ok |-> TRUE, TFIDF |-> <<>>, Ngrams |-> {}, WordCount |-> 0, CharCount |-> 0,
     UniqueWords |-> 0]

\* Content.GetDualHash
GetDualHash(c) == DualHash(c.Crypto, c.Semantic)

\* core.NewContent on a slice the caller made, with some spare capacity
NewContent(data, spare) ==
    /\ Len(contents.made) < MaxContents
    /\ contents' =
           [heap |-> Append(contents.heap, data \o Zeros(spare)),
            made |-> Append(contents.made,
                            [Data |-> Slice(Len(contents.heap) + 1, Len(data)),
                             Crypto |-> HashElement(data),
                             Semantic |-> ExtractFeatures(data)]),
            last |-> [op |-> "NewContent", data |-> data]]
    /\ UNCHANGED <<storeVars, txn, gateVars, nodeVars, raceVars, readVars, cryptoVars>>

\* Content.Extend on the i-th Content
ContentExtend(i, newData, spare) ==
    /\ i \in 1 .. Len(contents.made)
    /\ Len(contents.made) < MaxContents
    /\ LET c == contents.made[i]
           combined == AppendBytes(contents.heap, c.Data, newData, spare)
       IN  contents' =
               [heap |-> combined.heap,
                made |-> Append(contents.made,
                                [Data |-> combined.slice,
                                 Crypto |-> Extend(c.Crypto, newData),
                                 Semantic |-> ExtractFeatures(
                                                  SliceBytes(combined.heap,
                                                             combined.slice))]),
                last |-> [op |-> "Extend", parent |-> i, newData |-> newData]]
    /\ UNCHANGED <<storeVars, txn, gateVars, nodeVars, raceVars, readVars, cryptoVars>>

\* Node.Publish of the i-th Content: the extension handed to PublishExtension
Publish(i) ==
    /\ i \in 1 .. Len(contents.made)
    /\ contents.last.op # "Publish"
    /\ LET c == contents.made[i]
       IN  contents' =
               [contents EXCEPT
                   !.last = [op |-> "Publish", content |-> i,
                             ext |-> Extension(DualHash(Zero, EmptyFeatures),
                                               SliceBytes(contents.heap, c.Data),
                                               GetDualHash(c))]]
    /\ UNCHANGED <<storeVars, txn, gateVars, nodeVars, raceVars, readVars, cryptoVars>>

NextContent ==
    \/ \E data \in Data, spare \in 0 .. MaxSpare : NewContent(data, spare)
    \/ \E i \in 1 .. Len(contents.made), newData \in Data, spare \in 0 .. MaxSpare :
           ContentExtend(i, newData, spare)
    \/ \E i \in 1 .. Len(contents.made) : Publish(i)

SpecContent == Init /\ [][NextContent]_vars

----------------------------------------------------------------------------
(* The extension graph as a relation, read directly off the ext records *)

\* number of recorded edges on the backward walk from h
RECURSIVE EdgesBelow(_, _)
EdgesBelow(h, fuel) ==
    IF ~ext[h].ok \/ fuel = 0 THEN 0 ELSE 1 + EdgesBelow(ext[h].Parent, fuel - 1)

\* the hash at which the backward walk from h ends
RECURSIVE WalkEnd(_, _)
WalkEnd(h, fuel) ==
    IF ~ext[h].ok \/ fuel = 0 THEN h ELSE WalkEnd(ext[h].Parent, fuel - 1)

\* every record on the backward walk from h satisfies the homomorphic equality
RECURSIVE WalkValid(_, _)
WalkValid(h, fuel) ==
    \/ ~ext[h].ok
    \/ fuel = 0
    \/ /\ ext[h].Child = NewHash(ext[h].Parent + HashElement(ext[h].Delta))
       /\ WalkValid(ext[h].Parent, fuel - 1)

IsRoot(h) == ~ext[h].ok

\* the committed records never form a cycle: every backward walk ends
Acyclic == \A h \in Hashes : findRootInTxn(ext, h) # Looping

----------------------------------------------------------------------------
(* Claims about the store *)

\* C1: in every reachable state every persisted extension record r satisfies
\* r.Child = (r.Parent + e(r.Delta)) mod p.
C1_StoredEdgesValid ==
    \A c \in Hashes :
        ext[c].ok => ext[c].Child = NewHash(ext[c].Parent + HashElement(ext[c].Delta))

\* C2: a PutExtension (AddExtension) whose child is not extend(parent, delta)
\* returns the InvalidExtension error and leaves the ext record, the children
\* index and the root index unchanged.  (Stated of the calls that return.)
C2_InvalidExtensionRejected ==
    [][ \A parent \in Hashes, child \in Hashes, delta \in Data :
            (PutExtension(parent, child, delta)
                /\ ~hung'
                /\ NewHash(parent + HashElement(delta)) # child)
            => (ret'.err = ErrInvalidExtension
                /\ UNCHANGED <<ext, children, rootIdx>>) ]_vars

\* C5: a second PutExtension (AddExtension) for a child that already has a record
\* is rejected when the proposed parent or delta differs from the stored one, and
\* the stored record is left unchanged.  (Stated of the calls that return.)
C5_SecondParentRejected ==
    [][ \A parent \in Hashes, child \in Hashes, delta \in Data :
            (PutExtension(parent, child, delta)
                /\ ~hung'
                /\ ext[child].ok
                /\ (ext[child].Parent # parent \/ ext[child].Delta # delta))
            => (ret'.err # ErrNone /\ ext'[child] = ext[child]) ]_vars

\* the descendant index of every root lists exactly the hashes whose backward
\* walk ends at that root
RootIndexExact ==
    \A R \in Hashes :
        IsRoot(R) =>
            ToSet(rootIdx[R]) = { h \in Hashes \ {R} : WalkEnd(h, Prime) = R }

\* the children index of every parent lists exactly the children recorded under
\* that parent, each once
ChildIndexExact ==
    \A P \in Hashes :
        /\ ToSet(children[P]) = { c \in Hashes : ext[c].ok /\ ext[c].Parent = P }
        /\ NoDuplicates(children[P])

\* C6: after any sequence of AddExtensions, in any order, for every root R the
\* descendant index root:<R> contains every hash reachable forward from R, and
\* every hash it lists walks back to R.  (Stated as the step that keeps it true: a
\* returning call that records a valid edge for a child that has no record yet,
\* from a state whose records are valid and whose indices are exact.)
C6_RootIndexExact ==
    [][ \A parent \in Hashes, child \in Hashes, delta \in Data :
            (PutExtension(parent, child, delta)
                /\ ~hung'
                /\ VerifyExtension(parent, child, delta)
                /\ ~ext[child].ok
                /\ C1_StoredEdgesValid /\ ChildIndexExact /\ RootIndexExact)
            => RootIndexExact' ]_vars

\* C7: after any sequence of AddExtensions, including the same edge added twice,
\* for every parent P the list children:<P> contains exactly the children whose
\* stored ext record has parent P, each exactly once.  (Stated as the step that
\* keeps it true: a returning call that records a valid edge, the same as the
\* stored one when the child already has a record, from a state whose records
\* are valid and whose children index is exact.)
C7_ChildIndexExact ==
    [][ \A parent \in Hashes, child \in Hashes, delta \in Data :
            (PutExtension(parent, child, delta)
                /\ ~hung'
                /\ VerifyExtension(parent, child, delta)
                /\ (ext[child].ok =>
                        (ext[child].Parent = parent /\ ext[child].Delta = delta))
                /\ C1_StoredEdgesValid /\ ChildIndexExact)
            => ChildIndexExact' ]_vars

\* C9: for a stored chain of valid extensions from its terminal root R to T,
\* VerifyChain(R, T) is valid with ChainLength the number of edges between R and
\* T, RootHash = R and FinalHash = T; VerifyChain(X, T) is invalid for every X
\* that is not the terminal root of the backward walk from T.
C9_VerifyChain ==
    \A T \in Hashes : \A X \in Hashes :
        LET v == VerifyChain(X, T)
        IN  /\ X # WalkEnd(T, Prime) => ~v.Valid
            /\ (X = WalkEnd(T, Prime) /\ WalkValid(T, Prime)) =>
                   /\ v.Valid
                   /\ v.ChainLength = EdgesBelow(T, Prime)
                   /\ v.RootHash = X
                   /\ v.FinalHash = T

\* a root block stored by PutContent, extended twice by valid extensions, and the
\* chain verifies from that root with length 2
C9_Witness ==
    \E T \in Hashes :
        /\ EdgesBelow(T, Prime) = 2
        /\ WalkValid(T, Prime)
        /\ blocks[WalkEnd(T, Prime)].ok
        /\ VerifyChain(WalkEnd(T, Prime), T).Valid
        /\ VerifyChain(WalkEnd(T, Prime), T).ChainLength = 2
        /\ ~VerifyChain(ext[T].Parent, T).Valid

\* C10: GetChain(h) is the list of records on the backward walk from h in
\* root-to-leaf order; it is empty exactly when h has no record; GetRoot(h) is the
\* parent of its first record, or h when it is empty.
C10_GetChain ==
    \A h \in Hashes :
        LET chain == GetChain(h)
            n == Len(chain)
        IN  /\ n = 0 <=> ~ext[h].ok
            /\ n = EdgesBelow(h, Prime)
            /\ n > 0 =>
                   /\ chain[n].Child = h
                   /\ \A i \in 1 .. n : chain[i] = ext[chain[i].Child]
                   /\ \A i \in 1 .. (n - 1) : chain[i].Child = chain[i + 1].Parent
                   /\ ~ext[chain[1].Parent].ok
            /\ GetRoot(h) = IF n > 0 THEN chain[1].Parent ELSE h

\* a chain of two records has been read back, root first
C10_Witness ==
    \E h \in Hashes :
        /\ Len(GetChain(h)) = 2
        /\ GetChain(h)[2].Child = h
        /\ GetChain(h)[1].Child = GetChain(h)[2].Parent
        /\ GetRoot(h) = GetChain(h)[1].Parent
        /\ GetRoot(h) # h

----------------------------------------------------------------------------
(* Claims about walks, reconstruction and the verifier's results *)

\* C11: the recorded parent relation has no cycle and no self-loop in every
\* reachable state, and every AddExtension / PutExtension terminates (as do
\* the walks of GetChain and GetRoot): no call is stuck in its walk to the root.
C11_ForestAndTermination == Acyclic /\ ~hung

\* the records on the backward walk from h, root first
RECURSIVE WalkRecords(_, _)
WalkRecords(h, fuel) ==
    IF ~ext[h].ok \/ fuel = 0 THEN <<>>
    ELSE Append(WalkRecords(ext[h].Parent, fuel - 1), ext[h])

\* the deltas on the backward walk from h, concatenated root first
RECURSIVE DeltasBelow(_, _)
DeltasBelow(h, fuel) ==
    IF ~ext[h].ok \/ fuel = 0 THEN <<>>
    ELSE DeltasBelow(ext[h].Parent, fuel - 1) \o ext[h].Delta

\* C12: when the block of the hash at which T's chain starts is stored,
\* Reconstruct(T) returns that block's bytes followed by the deltas of the
\* chain's records in root-to-leaf order, with no error; for a stored root
\* without a chain it returns exactly the root block's bytes.
C12_Reconstruct ==
    \A T \in Hashes :
        LET root == WalkEnd(T, Prime)
            got  == ReconstructContent(blocks, T)
        IN  blocks[root].ok =>
                /\ got.err = ErrNone
                /\ got.content = Bytes(blocks[root].Data \o DeltasBelow(T, Prime))
                /\ HashElement(blocks[root].Data) = root
                /\ ~ext[T].ok => got.content = Bytes(blocks[T].Data)

\* a stored root, two recorded extensions with different deltas, and the target
\* reconstructs to the three pieces in root-to-leaf order
C12_Witness ==
    \E T \in Hashes :
        /\ EdgesBelow(T, Prime) = 2
        /\ blocks[WalkEnd(T, Prime)].ok
        /\ ext[T].Delta # ext[ext[T].Parent].Delta
        /\ ReconstructContent(blocks, T).content =
               Bytes(blocks[WalkEnd(T, Prime)].Data
                     \o ext[ext[T].Parent].Delta \o ext[T].Delta)

\* C13: VerifyAndReconstruct(root, target) returns content bytes only when
\* VerifyChain(root, target) is valid; when it is invalid it returns nil bytes,
\* the invalid result and no error.
C13_VerifyAndReconstruct ==
    \A root \in Hashes, target \in Hashes :
        LET v == VerifyChain(root, target)
            r == VerifyAndReconstruct(blocks, root, target)
        IN  /\ r.content # NilBytes => v.Valid
            /\ ~v.Valid => (r.content = NilBytes /\ r.result = v /\ r.err = ErrNone)
            /\ (v.Valid /\ ReconstructContent(blocks, target).err = ErrNone) =>
                   r.content = ReconstructContent(blocks, target).content

\* one target whose bytes can be rebuilt: from its root the call returns them,
\* from another start hash it returns nil bytes and the invalid result
C13_Witness ==
    \E target \in Hashes, root \in Hashes, other \in Hashes :
        /\ EdgesBelow(target, Prime) >= 1
        /\ VerifyChain(root, target).Valid
        /\ VerifyAndReconstruct(blocks, root, target).content # NilBytes
        /\ ~VerifyChain(other, target).Valid
        /\ ReconstructContent(blocks, target).err = ErrNone
        /\ VerifyAndReconstruct(blocks, other, target).content = NilBytes
        /\ VerifyAndReconstruct(blocks, other, target).err = ErrNone

\* step i (from 1) of the chain recs, verified from start hash X, fails
ParentFails(recs, X, i) ==
    recs[i].Parent # (IF i = 1 THEN X ELSE recs[i - 1].Child)

HashFails(recs, i) ==
    recs[i].Child # NewHash(recs[i].Parent + HashElement(recs[i].Delta))

FailingSteps(recs, X) ==
    { i \in 1 .. Len(recs) : ParentFails(recs, X, i) \/ HashFails(recs, i) }

FirstOf(S) == CHOOSE i \in S : \A j \in S : i <= j

\* C14: VerifyChain and VerifyExtension return no error on a logical mismatch.
\* VerifyChain returns Valid=false whose reason names the first failing step
\* (counted from 0, root first) on a parent or hash mismatch, and Valid=false
\* when the chain does not reach the target; VerifyExtension returns Valid=false
\* on a missing record, a parent mismatch or a hash mismatch.
C14_NoErrorOnMismatch ==
    /\ \A X \in Hashes, T \in Hashes :
           LET recs == WalkRecords(T, Prime)
               bad  == FailingSteps(recs, X)
               call == StoreVerifyChain(X, T)
               v    == call.result
           IN  /\ call.err = ErrNone
               /\ bad # {} =>
                      /\ ~v.Valid
                      /\ v.Step = FirstOf(bad) - 1
                      /\ v.Reason = IF ParentFails(recs, X, FirstOf(bad))
                                    THEN "chain break: parent mismatch"
                                    ELSE "invalid extension: hash mismatch"
               /\ (bad = {} /\ Len(recs) = 0 /\ X # T) =>
                      (~v.Valid /\ v.Reason = "chain does not reach target hash")
               /\ (bad = {} /\ (Len(recs) > 0 \/ X = T)) => v.Valid
    /\ \A P \in Hashes, C \in Hashes :
           LET call == GraphVerifyExtension(P, C)
           IN  /\ call.err = ErrNone
               /\ call.result.Valid <=>
                      (ext[C].ok /\ ext[C].Parent = P
                          /\ C = NewHash(P + HashElement(ext[C].Delta)))

\* a chain of two records whose first step verifies and whose second record
\* fails the hash check: the result names step 1; and a VerifyExtension for a
\* child without a record returns an invalid result and no error
C14_Witness ==
    /\ \E T \in Hashes :
           /\ EdgesBelow(T, Prime) = 2
           /\ LET call == StoreVerifyChain(WalkEnd(T, Prime), T)
              IN  /\ call.err = ErrNone
                  /\ ~call.result.Valid
                  /\ call.result.Step = 1
                  /\ call.result.Reason = "invalid extension: hash mismatch"
    /\ \E P \in Hashes, C \in Hashes :
           /\ ~ext[C].ok
           /\ ~GraphVerifyExtension(P, C).result.Valid
           /\ GraphVerifyExtension(P, C).err = ErrNone

----------------------------------------------------------------------------
(* Claims about the hashes *)

\* Extend folded over the elements, first to last
RECURSIVE FoldExtend(_, _)
FoldExtend(h, elements) ==
    IF Len(elements) = 0 THEN h
    ELSE FoldExtend(Extend(h, elements[1]), SubSeq(elements, 2, Len(elements)))

\* C22: HashSet is a homomorphism: Combine(HashSet(A), HashSet(B)) equals
\* HashSet(A ++ B), and folding Extend over a list from Zero, or extending the
\* hash of all but the last element by the last, equals HashSet of the list.
C22_Homomorphism ==
    /\ cr.op = "Combine of HashSets" => cr.h = HashSet(cr.a \o cr.b)
    /\ cr.op = "HashSet" =>
          /\ cr.h = FoldExtend(Zero, cr.elements)
          /\ Len(cr.elements) > 0 =>
                cr.h = Extend(HashSet(SubSeq(cr.elements, 1, Len(cr.elements) - 1)),
                              cr.elements[Len(cr.elements)])

\* two disjoint lists were hashed and combined, and the sum wrapped around
C22_Witness ==
    /\ cr.op = "Combine of HashSets"
    /\ cr.a # <<>> /\ cr.b # <<>>
    /\ ToSet(cr.a) \cap ToSet(cr.b) = {}
    /\ HashSet(cr.a) + HashSet(cr.b) >= Prime

\* C23: VerifyExtension(H, Extend(H, d), d) is true, VerifyExtension(H,
\* Extend(H, d), d') is false for d' # d, and VerifyExtension(H, X, d) is false
\* for X # Extend(H, d).
C23_VerifyExtension ==
    cr.op = "VerifyExtension" =>
        /\ cr.newHash = Extend(cr.oldHash, cr.newElement) => cr.valid
        /\ (\E d \in Data : d # cr.newElement /\ cr.newHash = Extend(cr.oldHash, d))
               => ~cr.valid
        /\ cr.newHash # Extend(cr.oldHash, cr.newElement) => ~cr.valid

\* an extension by one delta was verified against the other delta
C23_Witness ==
    /\ cr.op = "VerifyExtension"
    /\ ~cr.valid
    /\ \E d \in Data : d # cr.newElement /\ cr.newHash = Extend(cr.oldHash, d)

\* the list elements in the order perm
Permuted(elements, perm) == [i \in 1 .. Len(elements) |-> elements[perm[i]]]

\* C24: HashSet returns the same hash for every reordering of its input,
\* repetitions included.
C24_PermutationInvariant ==
    cr.op = "HashSet" =>
        \A perm \in Permutations(1 .. Len(cr.elements)) :
            HashSet(Permuted(cr.elements, perm)) = cr.h

\* a list with both elements and a repetition was hashed
C24_Witness ==
    /\ cr.op = "HashSet"
    /\ Len(cr.elements) >= 3
    /\ ToSet(cr.elements) = Data

\* C25: every hash produced is in [0, p); FromHex(H.Hex()) = H, FromHex("0x" +
\* H.Hex()) = H, FromBytes(H.Bytes()) = H, and H.Bytes() has length 32, padded
\* with zeros on the high side.
C25_RoundTrips ==
    /\ cr.op \in {"NewHash", "HashElement", "HashSet", "Extend", "Combine",
                  "Combine of HashSets", "FromBytes"} => cr.h \in Hashes
    /\ (cr.op = "FromHex" /\ cr.got.ok) => cr.got.h \in Hashes
    /\ cr.op = "Hex" =>
          /\ FromHex(cr.hex) = [ok |-> TRUE, h |-> cr.h, err |-> "nil"]
          /\ FromHex(<<"0", "x">> \o cr.hex) = [ok |-> TRUE, h |-> cr.h, err |-> "nil"]
    /\ cr.op = "Bytes" =>
          /\ FromBytes(cr.bytes) = cr.h
          /\ Len(cr.bytes) = 32
          /\ \A i \in 1 .. 31 : cr.bytes[i] = 0
          /\ cr.bytes[32] = cr.h

\* the hex string of a hash other than zero was produced
C25_Witness == cr.op = "Hex" /\ cr.h # 0

\* C26: Zero is the identity: Extend(Zero, d) = HashElement(d), Combine(H, Zero)
\* = Combine(Zero, H) = H, and HashSet of the empty list is Zero.
C26_Identity ==
    /\ (cr.op = "Extend" /\ cr.oldHash = Zero) => cr.h = HashElement(cr.newElement)
    /\ (cr.op = "Combine" /\ cr.h2 = Zero) => cr.h = cr.h1
    /\ (cr.op = "Combine" /\ cr.h1 = Zero) => cr.h = cr.h2
    /\ (cr.op = "HashSet" /\ cr.elements = <<>>) => cr.h = Zero
    /\ cr.op = "Combine of HashSets" =>
          /\ cr.b = <<>> => cr.h = HashSet(cr.a)
          /\ cr.a = <<>> => cr.h = HashSet(cr.b)

\* a hash other than Zero was combined with Zero
C26_Witness == cr.op = "Combine" /\ cr.h1 = Zero /\ cr.h2 # Zero

----------------------------------------------------------------------------
(* Claims about readers beside writers *)

\* the chain of h in the records extmap, root first
RECURSIVE ChainIn(_, _, _)
ChainIn(extmap, h, fuel) ==
    IF ~extmap[h].ok \/ fuel = 0 THEN <<>>
    ELSE Append(ChainIn(extmap, extmap[h].Parent, fuel - 1), extmap[h])

\* every record of extmap is a valid extension
RecordsValid(extmap) ==
    \A c \in Hashes :
        extmap[c].ok => VerifyExtension(extmap[c].Parent, c, extmap[c].Delta)

\* C21: a GetChain(h) that ran beside writers returns the chain of h in one
\* single committed state of the store, one of the states committed between
\* its call and its return.  (Stated of writers that record valid extensions
\* only.)
C21_ChainIsSnapshot ==
    (/\ reader.pc = "returned"
     /\ \A committed \in history : RecordsValid(committed)) =>
        \E committed \in history :
            reader.chain = ChainIn(committed, reader.hash, Prime)

----------------------------------------------------------------------------
(* Claims about admission and garbage collection *)

\* the hash is known to the store: a stored block or a recorded child
Known(h) == blocks[h].ok \/ ext[h].ok

\* C16: an extension is admitted only if its parent hash is already known:
\* whenever PutExtension returns without error having recorded a valid
\* extension, the parent of the new record was a stored block or a recorded
\* child before the call.
C16_ParentKnown ==
    [][ (ret'.op = "PutExtension" /\ ops' # ops /\ ret'.err = ErrNone) =>
            \A h \in Hashes :
                (/\ ext'[h].ok
                 /\ ext'[h] # ext[h]
                 /\ VerifyExtension(ext'[h].Parent, h, ext'[h].Delta))
                    => Known(ext'[h].Parent) ]_vars

\* the kept roots and the hashes in the stored descendant index of a kept root
Marked(keep) == keep \cup { d \in Hashes : \E r \in keep : d \in ToSet(rootIdx[r]) }

\* C19: GarbageCollect(keepRoots) deletes exactly the stored blocks that are
\* neither kept roots nor in the stored descendant index of a kept root, leaves
\* every other block and its bytes unchanged, and returns the number of blocks
\* it deleted.
C19_GarbageCollect ==
    [][ (ret'.op = "GarbageCollect" /\ ops' # ops) =>
            /\ \A h \in Hashes :
                  IF blocks[h].ok /\ h \notin Marked(ret'.keepRoots)
                  THEN blocks'[h] = NoBlock
                  ELSE blocks'[h] = blocks[h]
            /\ ret'.deleted =
                   Cardinality({ h \in Hashes : blocks[h].ok /\ ~blocks'[h].ok })
            /\ ret'.err = ErrNone ]_vars

\* a collection deleted a block and spared a block that is not a kept root but
\* a descendant of one
C19_Witness ==
    /\ ret.op = "GarbageCollect"
    /\ ret.deleted >= 1
    /\ \E h \in Hashes :
          /\ blocks[h].ok
          /\ h \notin ret.keepRoots
          /\ \E r \in ret.keepRoots : h \in ToSet(rootIdx[r])

\* every record is a valid extension
AllRecordsValid ==
    \A c \in Hashes :
        ext[c].ok => VerifyExtension(ext[c].Parent, c, ext[c].Delta)

\* C20: after GarbageCollect returns, no ext record, children-index entry or
\* root-index entry remains for a block the collection deleted.  (Stated of
\* stores that hold valid extensions only.)
C20_IndicesCleaned ==
    [][ (ret'.op = "GarbageCollect" /\ ops' # ops /\ AllRecordsValid) =>
            \A h \in Hashes :
                (blocks[h].ok /\ ~blocks'[h].ok) =>
                    /\ ~ext'[h].ok
                    /\ children'[h] = <<>>
                    /\ rootIdx'[h] = <<>>
                    /\ \A p \in Hashes :
                          /\ h \notin ToSet(children'[p])
                          /\ h \notin ToSet(rootIdx'[p]) ]_vars

----------------------------------------------------------------------------
(* Claims about the audit, the statistics and the block reads *)

\* stored blocks that have neither a parent edge nor any children
Orphans == { h \in Hashes : blocks[h].ok /\ ~ext[h].ok /\ children[h] = <<>> }

\* C27: VerifyStorageIntegrity reports OrphanedBlocks equal to the number of
\* stored blocks that have neither a parent edge nor any children.
C27_OrphanedBlocks ==
    ret.op = "VerifyStorageIntegrity" =>
        ret.report.OrphanedBlocks = Cardinality(Orphans)

\* the extension edges recorded in the graph
Edges == { c \in Hashes : ext[c].ok }

\* a store as PutContent and PutExtension calls of valid extensions of known
\* parents leave it: valid records, exact indices, every chain's root stored
WellFormedStore ==
    /\ AllRecordsValid
    /\ ChildIndexExact
    /\ \A c \in Edges : Known(ext[c].Parent)
    /\ \A c \in Edges : IsRoot(ext[c].Parent) => blocks[ext[c].Parent].ok

\* C28: after any sequence of PutContent and PutExtension calls, chains of
\* length two or more included, GetStats().ExtensionCount and
\* IntegrityReport.TotalExtensions equal the number of extension edges recorded
\* in the graph.  (Stated of stores that hold valid extensions of known
\* parents, each child recorded once.)
C28_ExtensionCount ==
    WellFormedStore =>
        /\ ret.op = "GetStats" => ret.ExtensionCount = Cardinality(Edges)
        /\ ret.op = "VerifyStorageIntegrity" =>
              ret.report.TotalExtensions = Cardinality(Edges)

\* C30: after PutContent(data) returns h, h is HashElement(data) and the block
\* under h holds exactly data; a stored block keeps its data in every step and
\* goes away only in a GarbageCollect; GetContent of a stored hash returns the
\* stored data and no error, of any other hash no data and ErrBlockNotFound;
\* HasContent answers whether the block is stored, never with an error;
\* GetExtension of a hash with no record returns ErrExtensionNotFound; and the
\* two errors differ from each other and from nil.
C30_ContentReads ==
    /\ [][ /\ \A data \in Data :
                 PutContent(data)
                     => /\ ret'.hash = HashElement(data) /\ ret'.err = ErrNone
                        /\ BlockStoreGet(blocks', ret'.hash).err = ErrNone
                        /\ BlockStoreGet(blocks', ret'.hash).block.Data = data
                        /\ BlockStoreHas(blocks', ret'.hash).has
           /\ \A h \in Hashes :
                 blocks[h].ok =>
                     \/ blocks'[h].ok /\ blocks'[h].Data = blocks[h].Data
                     \/ ~blocks'[h].ok /\ ret'.op = "GarbageCollect"
           /\ (ret'.op = "GetContent" /\ ops' = ops + 1) =>
                 IF blocks[ret'.hash].ok
                 THEN /\ ret'.err = ErrNone
                      /\ ret'.data = Bytes(blocks[ret'.hash].Data)
                 ELSE /\ ret'.err = ErrBlockNotFound
                      /\ ret'.data = NilBytes
           /\ (ret'.op = "HasContent" /\ ops' = ops + 1) =>
                 /\ ret'.err = ErrNone
                 /\ ret'.has = blocks[ret'.hash].ok
           /\ (ret'.op = "GetExtension" /\ ops' = ops + 1 /\ ~ext[ret'.hash].ok) =>
                 ret'.err = ErrExtensionNotFound ]_vars
    /\ [](/\ \A data \in Data :
                blocks[HashElement(data)].ok => blocks[HashElement(data)].Data = data
          /\ ErrBlockNotFound # ErrExtensionNotFound
          /\ ErrBlockNotFound # ErrNone
          /\ ErrExtensionNotFound # ErrNone)

\* GetContent of the hash of "d" has returned "d" with no error while no block
\* is stored under the hash of "e"
C30_Witness ==
    /\ ret.op = "GetContent" /\ ret.err = ErrNone
    /\ ret.hash = HashElement(<<100>>) /\ ret.data = Bytes(<<100>>)
    /\ blocks[ret.hash].ok
    /\ ~blocks[HashElement(<<101>>)].ok

----------------------------------------------------------------------------
(* Claims about the kernel *)

\* some weight of the parameters is positive
SomePositiveWeight(params) ==
    \/ params.WeightSemantic > 0
    \/ params.WeightLexical > 0
    \/ params.WeightStructural > 0

\* C31: every Similarity score lies in [0, 1], and the score of any features
\* with themselves, those of empty and of token-free content included, is 1
\* under parameters with a positive weight.
C31_SimilarityBounds ==
    cr.op = "Similarity" =>
        /\ 0 <= cr.score /\ cr.score <= Scale
        /\ (cr.a = cr.b /\ SomePositiveWeight(cr.params)) => cr.score = Scale

\* the part of C31 the code keeps: the bounds always, and the score 1 of
\* features with themselves when the content has a token
C31_BoundsAndSelfWithTokens ==
    cr.op = "Similarity" =>
        /\ 0 <= cr.score /\ cr.score <= Scale
        /\ (cr.a = cr.b /\ SomePositiveWeight(cr.params) /\ cr.a.WordCount > 0)
               => cr.score = Scale

\* C32: RankBySimilarity returns one entry for every candidate, each original
\* index 0 .. n-1 exactly once, each entry with the features and the score of
\* the candidate at its index, in order of non-increasing score.
C32_RankedPermutation ==
    cr.op = "RankBySimilarity" =>
        LET n == Len(cr.candidates)
            results == cr.results
        IN  /\ Len(results) = n
            /\ \A k \in 0 .. n - 1 :
                   Cardinality({ i \in 1 .. n : results[i].Index = k }) = 1
            /\ \A i \in 1 .. n :
                   /\ results[i].Index \in 0 .. n - 1
                   /\ results[i].Features = cr.candidates[results[i].Index + 1]
                   /\ results[i].Similarity =
                          Similarity(cr.query, cr.candidates[results[i].Index + 1],
                                     cr.params)
            /\ \A i \in 1 .. n - 1 : results[i].Similarity >= results[i + 1].Similarity

\* a ranking of three candidates with three different scores that came in
\* increasing order of score, so the result is the reverse of the input
C32_Witness ==
    /\ cr.op = "RankBySimilarity" /\ Len(cr.candidates) = 3
    /\ cr.results[1].Index = 2 /\ cr.results[2].Index = 1 /\ cr.results[3].Index = 0
    /\ cr.results[1].Similarity > cr.results[2].Similarity
    /\ cr.results[2].Similarity > cr.results[3].Similarity

----------------------------------------------------------------------------
(* Claims about the gatekeeper's counters over time *)

\* C33: no public Gatekeeper operation makes a counter smaller: in every step
\* TotalSeen, CryptoBlocked, SemanticBlocked and Forwarded are each at least
\* what they were.
C33_CountersMonotonic ==
    [][ /\ gk'.TotalSeen >= gk.TotalSeen
        /\ gk'.CryptoBlocked >= gk.CryptoBlocked
        /\ gk'.SemanticBlocked >= gk.SemanticBlocked
        /\ gk'.Forwarded >= gk.Forwarded ]_vars

\* the part of C33 the code keeps: every step other than a Reset leaves each
\* counter at least what it was
C33_MonotonicBetweenResets ==
    [][ gret'.op # "Reset" =>
           /\ gk'.TotalSeen >= gk.TotalSeen
           /\ gk'.CryptoBlocked >= gk.CryptoBlocked
           /\ gk'.SemanticBlocked >= gk.SemanticBlocked
           /\ gk'.Forwarded >= gk.Forwarded ]_vars

----------------------------------------------------------------------------
(* Claims about Content values *)

\* C34: Content.Extend changes the Data of no Content made before, neither the
\* parent's nor that of an earlier extension of the same parent, and the new
\* Content's Data is the parent's Data followed by the new data.
C34_ExtendLeavesData ==
    [][ contents'.last.op = "Extend" /\ Len(contents'.made) = Len(contents.made) + 1 =>
           /\ \A k \in 1 .. Len(contents.made) :
                  SliceBytes(contents'.heap, contents'.made[k].Data)
                      = SliceBytes(contents.heap, contents.made[k].Data)
           /\ SliceBytes(contents'.heap, contents'.made[Len(contents'.made)].Data)
                  = SliceBytes(contents.heap,
                               contents.made[contents'.last.parent].Data)
                        \o contents'.last.newData ]_vars

\* the part of C34 the code keeps: the parent's own Data is unchanged and the
\* new Content's Data is the parent's followed by the new data
C34_ParentAndNewData ==
    [][ contents'.last.op = "Extend" /\ Len(contents'.made) = Len(contents.made) + 1 =>
           /\ SliceBytes(contents'.heap, contents'.made[contents'.last.parent].Data)
                  = SliceBytes(contents.heap,
                               contents.made[contents'.last.parent].Data)
           /\ SliceBytes(contents'.heap, contents'.made[Len(contents'.made)].Data)
                  = SliceBytes(contents.heap,
                               contents.made[contents'.last.parent].Data)
                        \o contents'.last.newData ]_vars

\* C37: the extension Node.Publish announces for a Content, made by NewContent
\* or by Content.Extend, satisfies VerifyCrypto.
C37_PublishedVerifies ==
    contents.last.op = "Publish" => VerifyCrypto(contents.last.ext)

----------------------------------------------------------------------------
(* Claims about what a collection keeps *)

\* the root of the chain GetChain returns for a hash: the hash itself when it
\* has no record
ChainRoot(hash) ==
    IF Len(GetChain(hash)) > 0 THEN GetChain(hash)[1].Parent ELSE hash

\* C35: a GarbageCollect step deletes no delta block of a kept chain: for
\* every extension record whose child is a descendant of a kept root, the
\* block PutExtension stored for its delta is still stored after the step.
C35_DeltaBlocksSurvive ==
    [][ (ret'.op = "GarbageCollect" /\ ops' = ops + 1 /\ AllRecordsValid) =>
           \A r \in ret'.keepRoots, c \in Hashes :
               (/\ \E i \in 1 .. Len(GetAllDescendants(r)) : GetAllDescendants(r)[i] = c
                /\ ext[c].ok /\ blocks[HashElement(ext[c].Delta)].ok)
                   => blocks'[HashElement(ext[c].Delta)].ok ]_vars

\* C36: a GarbageCollect step that keeps a root R whose block is stored leaves
\* Reconstruct(D) of every hash D whose chain ends at R successful and with the
\* same bytes, and VerifyChain(R, D) with the same result.
C36_KeptChainsReconstruct ==
    [][ (ret'.op = "GarbageCollect" /\ ops' = ops + 1) =>
           \A R \in ret'.keepRoots, D \in Hashes :
               (blocks[R].ok /\ ChainRoot(D) = R) =>
                   /\ ReconstructContent(blocks, D).err = ErrNone
                   /\ ReconstructContent(blocks', D) = ReconstructContent(blocks, D)
                   /\ VerifyChain(R, D)' = VerifyChain(R, D) ]_vars

\* a collection that kept a root with a stored block and a valid chain of an
\* extension ending at it has deleted a block, and the extension still
\* reconstructs
C36_Witness ==
    /\ ret.op = "GarbageCollect" /\ ret.deleted > 0
    /\ \E R \in ret.keepRoots, D \in Hashes :
           /\ D # R /\ blocks[R].ok /\ ChainRoot(D) = R
           /\ VerifyChain(R, D).Valid
           /\ ReconstructContent(blocks, D).err = ErrNone

----------------------------------------------------------------------------
(* Claims about the messages *)

\* C29: UnmarshalMessage returns an error for every message whose version is
\* not "tera/1.0.0", each payload accessor returns an error for a message of
\* another type, and a node that handles bytes carrying another version, or a
\* type it has no handler for, changes nothing: its gatekeeper (so its
\* counters), its interests and parameters and its content map are the same
\* after the step, and it has not panicked.
C29_BadMessagesChangeNothing ==
    /\ [][ (/\ nret'.op = "handleMessage"
            /\ delivered' = delivered + 1
            /\ \/ nret'.data.Version # ProtocolVersion
               \/ nret'.data.Type \notin {MessageTypeExtension, MessageTypeQuery,
                                     MessageTypeQueryResponse})
           => /\ node' = node
              /\ panicked' = panicked
              /\ nret'.to \in {"drop", "unknown"} ]_vars
    /\ [](\A data \in RawMessages :
             /\ data.Version # ProtocolVersion => ~UnmarshalMessage(data).ok
             /\ data.Type # MessageTypeExtension => ~GetExtensionPayload(data).ok
             /\ data.Type # MessageTypeQuery => ~GetQueryPayload(data).ok
             /\ data.Type # MessageTypeQueryResponse
                    => ~GetQueryResponsePayload(data).ok)

\* a node with interests has handled a well-formed extension announcement that
\* carries another protocol version, and dropped it
C29_Witness ==
    /\ nret.op = "handleMessage"
    /\ nret.data.json /\ nret.data.Version # ProtocolVersion
    /\ nret.data.Type = MessageTypeExtension
    /\ nret.data.Payload.kind = "extension"
    /\ nret.to = "drop"
    /\ node.created /\ Len(node.interests) > 0
    /\ node.gatekeeper = NewGatekeeper

----------------------------------------------------------------------------
(* Claims about the nodes *)

\* ShouldForward returns forward = true for the extension e and at least one
\* of the interests
SomeInterestForwards(interests, params, e) ==
    \E i \in 1 .. Len(interests) :
        LET r == GatekeeperShouldForward(NewGatekeeper, e,
                                         NewQuery(interests[i], params))
        IN  ~r.panic /\ r.decision.ShouldForward

\* C15: a node stores a received extension if and only if ShouldForward
\* returns forward = true for at least one of its interests: handleExtension
\* puts the extension into the content map when some interest forwards it and
\* leaves the map alone otherwise, and ProcessExtension appends it to Received
\* and returns true when some interest forwards it and leaves Received alone
\* and does not return true otherwise; whatever a node holds passed crypto
\* verification, and a node without interests holds nothing.
C15_StoredIffForwarded ==
    /\ [][ delivered' # delivered =>
             LET e == nret'.e
             IN  /\ nret'.op = "handleExtension" =>
                       IF SomeInterestForwards(node.interests, node.params, e)
                       THEN node'.content =
                                [node.content EXCEPT ![e.NewHash.Crypto] =
                                    Content(e.NewData, e.NewHash.Crypto,
                                            e.NewHash.Semantic)]
                       ELSE node'.content = node.content
                 /\ nret'.op = "ProcessExtension" =>
                       LET before == simulator[nret'.i]
                           after  == simulator'[nret'.i]
                       IN  IF SomeInterestForwards(before.Interests, before.Params, e)
                           THEN /\ nret'.forward
                                /\ after.Received = Append(before.Received, e)
                           ELSE /\ ~nret'.forward
                                /\ after.Received = before.Received ]_vars
    /\ [] /\ node.created =>
                \A h \in Hashes :
                    node.content[h].ok =>
                        /\ node.content[h].Crypto = h
                        /\ node.interests # <<>>
                        /\ \E p \in Hashes :
                              VerifyExtension(p, h, node.content[h].Data)
          /\ \A i \in 1 .. Len(simulator) :
                \A k \in 1 .. Len(simulator[i].Received) :
                    /\ VerifyCrypto(simulator[i].Received[k])
                    /\ simulator[i].Interests # <<>>

\* a node whose first interest blocked an extension and whose second interest
\* forwarded it holds the extension
C15_Witness ==
    /\ node.created
    /\ Len(node.interests) = 2
    /\ node.gatekeeper.TotalSeen = 2
    /\ node.gatekeeper.Forwarded = 1
    /\ \E h \in Hashes : node.content[h].ok

----------------------------------------------------------------------------
(* Claims about the gatekeeper *)

OnlyIncremented(before, after, counter) ==
    /\ after.CryptoBlocked =
           before.CryptoBlocked + (IF counter = "CryptoBlocked" THEN 1 ELSE 0)
    /\ after.SemanticBlocked =
           before.SemanticBlocked + (IF counter = "SemanticBlocked" THEN 1 ELSE 0)
    /\ after.Forwarded = before.Forwarded + (IF counter = "Forwarded" THEN 1 ELSE 0)

\* what C3 describes, for a ShouldForward(e, query) that found the counters
\* before, left the counters after and returned decision
ThreeWayDecision(before, after, decision, e, query) ==
    /\ after.TotalSeen = before.TotalSeen + 1
    /\ IF ~VerifyExtension(e.ParentHash.Crypto, e.NewHash.Crypto, e.NewData)
       THEN /\ ~decision.ShouldForward
            /\ ~decision.CryptoValid
            /\ decision.SimilarityScore = 0
            /\ OnlyIncremented(before, after, "CryptoBlocked")
       ELSE LET sim == Similarity(e.NewHash.Semantic, query.Features, query.Params)
            IN  /\ decision.SimilarityScore = sim
                /\ IF sim < query.Params.Threshold
                   THEN /\ ~decision.ShouldForward
                        /\ decision.CryptoValid
                        /\ OnlyIncremented(before, after, "SemanticBlocked")
                   ELSE /\ decision.ShouldForward
                        /\ OnlyIncremented(before, after, "Forwarded")

\* C3: every ShouldForward(ext, query) returns a decision: crypto-invalid gives
\* forward=false, CryptoValid=false, no similarity and only crypto_blocked
\* incremented; otherwise similarity < threshold gives forward=false,
\* CryptoValid=true and only semantic_blocked incremented; otherwise forward=true
\* and only forwarded incremented; total_seen grows by exactly 1 in every case.
C3_ShouldForward ==
    [][ \A e \in Extensions, query \in Queries :
            ShouldForward(e, query) =>
                /\ gk'.TotalSeen = gk.TotalSeen + 1
                /\ ~gret'.panic
                /\ ThreeWayDecision(gk, gk', gret'.decision, e, query) ]_vars

\* the same, at every reachable gatekeeper, for every call whose extension
\* carries child features
ShouldForwardWithFeatures ==
    \A e \in Extensions, query \in Queries :
        e.NewHash.Semantic.ok =>
            LET r == GatekeeperShouldForward(gk, e, query)
            IN  /\ ~r.panic
                /\ ThreeWayDecision(gk, r.gk, r.decision, e, query)

\* C4: after any sequence of ShouldForward, ShouldForwardSimple, GetStats and
\* Reset calls on one Gatekeeper, total_seen = crypto_blocked + semantic_blocked
\* + forwarded.
C4_CountersAddUp ==
    gk.TotalSeen = gk.CryptoBlocked + gk.SemanticBlocked + gk.Forwarded

\* the same while no call has panicked
CountersAddUpUnlessPanicked == ~panicked => C4_CountersAddUp

\* C17: ShouldForward never panics, whatever extension the transport
\* delivered (child features absent included), and a call that found the
\* extension crypto-invalid returned the crypto_blocked decision.
C17_NeverPanics ==
    /\ ~panicked
    /\ (gret.op = "ShouldForward" /\ ~gret.panic /\ ~gret.decision.CryptoValid) =>
           /\ ~gret.decision.ShouldForward
           /\ gret.decision.Reason = "crypto verification failed: invalid extension"

\* ShouldForward calls that have returned
Completed == SumOver(Threads, [t \in Threads |-> threads[t].done])

\* C18: the counters are updated atomically: when interleaved ShouldForward
\* calls have all completed, no increment is lost: total_seen equals the number
\* of completed calls and equals crypto_blocked + semantic_blocked + forwarded.
C18_NoLostIncrement ==
    (\A t \in Threads : threads[t].pc = "idle") =>
        /\ gk.TotalSeen = Completed
        /\ gk.TotalSeen = gk.CryptoBlocked + gk.SemanticBlocked + gk.Forwarded

----------------------------------------------------------------------------
(* Claims about the AddExtension transaction *)

\* what a reader finds about a child: its ext record, an entry in some children
\* list, an entry in some root list
HasRecord(c) == ext[c].ok

InSomeChildren(c) == \E P \in Hashes : c \in ToSet(children[P])

InSomeRootIndex(c) == \E R \in Hashes : c \in ToSet(rootIdx[R])

AllOrNothing ==
    \A c \in Hashes :
        /\ HasRecord(c) <=> InSomeChildren(c)
        /\ HasRecord(c) <=> InSomeRootIndex(c)
        /\ HasRecord(c) => c \in ToSet(children[ext[c].Parent])

\* C8: AddExtension is atomic.  Every step of the transaction, whether it
\* buffers a write, fails or commits, either leaves the committed ext record,
\* children index and root index all unchanged, or (the commit) installs the
\* record, the children entry and the root entry of the call together; and in
\* every state a reader can observe, each child has all three or none of them.
C8_Atomic ==
    [][ /\ \/ UNCHANGED <<ext, children, rootIdx>>
           \/ /\ txn.pc = "commit"
              /\ ext' = [ext EXCEPT ![txn.child] =
                             ExtensionRecord(txn.parent, txn.child, txn.delta)]
              /\ children' = addChild(children, txn.parent, txn.child)
              /\ rootIdx' = addDescendant(rootIdx, txn.root, txn.child)
        /\ AllOrNothing
        /\ AllOrNothing' ]_vars

\* an earlier call committed, the latest call failed at its commit with all three
\* writes buffered, and nothing of the failed call is visible to a reader; a new
\* transaction is open with all three writes buffered and none of them committed
C8_Witness ==
    /\ ret.op = "AddExtension" /\ ret.err = ErrTxnFailed /\ ret.step = "commit"
    /\ \E c \in Hashes : HasRecord(c)
    /\ txn.pc = "commit"
    /\ ~HasRecord(txn.child)
    /\ ~InSomeChildren(txn.child)
    /\ ~InSomeRootIndex(txn.child)
    /\ txn.wext[txn.child].ok
    /\ txn.child \in ToSet(txn.wchildren[txn.parent])
    /\ txn.child \in ToSet(txn.wrootIdx[txn.root])

----------------------------------------------------------------------------
(* Claims about the gossip simulator *)

\* what C38 says of one PropagateExtension step: the call returns the number
\* of nodes some interest of which forwards the extension; each of those nodes
\* has the extension appended to Received and its Forwarded counter one
\* higher; every other node's Received is as it was; and every node's
\* gatekeeper is what its own interest loop makes of its own gatekeeper
FoldOverNodes ==
    LET e == nret'.e
        passing == { i \in 1 .. Len(simulator) :
                       SomeInterestForwards(simulator[i].Interests,
                                            simulator[i].Params, e) }
    IN  /\ ~nret'.panic
        /\ nret'.forwarded = Cardinality(passing)
        /\ Len(simulator') = Len(simulator)
        /\ \A i \in 1 .. Len(simulator) :
               /\ simulator'[i].Gatekeeper =
                      InterestLoop(simulator[i].Gatekeeper, simulator[i].Interests,
                                   simulator[i].Params, 1, e).gk
               /\ IF i \in passing
                  THEN /\ simulator'[i].Received = Append(simulator[i].Received, e)
                       /\ simulator'[i].Gatekeeper.Forwarded =
                              simulator[i].Gatekeeper.Forwarded + 1
                  ELSE simulator'[i].Received = simulator[i].Received

\* C38: PropagateExtension is a fold over independent nodes: it returns the
\* number of nodes for which some interest passes both gates, each such node's
\* Received grows by the extension and its Forwarded counter by 1, every other
\* node's Received is unchanged, and no node's counters depend on another node.
C38_PropagateIsFold ==
    [][ (nret'.op = "PropagateExtension" /\ delivered' = delivered + 1)
           => FoldOverNodes ]_vars

\* the part of C38 the code keeps: the same for every extension that carries
\* child features
C38_FoldWithFeatures ==
    [][ (/\ nret'.op = "PropagateExtension" /\ delivered' = delivered + 1
         /\ nret'.e.NewHash.Semantic.ok)
           => FoldOverNodes ]_vars

\* two nodes have processed one extension: the first blocked it, the second
\* forwarded it, and the call returned 1
C38_TwoNodesOneForwards ==
    /\ nret.op = "PropagateExtension" /\ nret.forwarded = 1 /\ ~nret.panic
    /\ Len(simulator) = 2
    /\ simulator[1].Received = <<>> /\ simulator[1].Gatekeeper.TotalSeen > 0
    /\ simulator[2].Received = <<nret.e>>

----------------------------------------------------------------------------
(* Claims about the statistics read beside the listener *)

\* C39: every snapshot Node.GetStats returns, also one taken while the listen
\* goroutine is inside ShouldForward, has TotalSeen equal to the sum of
\* CryptoBlocked, SemanticBlocked and Forwarded.
C39_SnapshotAddsUp ==
    gret.op = "Node.GetStats" =>
        gret.stats.TotalSeen =
            gret.stats.CryptoBlocked + gret.stats.SemanticBlocked + gret.stats.Forwarded

\* the part of C39 the code keeps: a snapshot whose loads all fall outside a
\* ShouldForward call of the listener adds up; here, whenever the listener is
\* idle and no snapshot is being taken, the counters themselves add up
C39_AddsUpAtRest ==
    (threads["a"].pc = "idle" /\ threads["b"].pc = "idle") =>
        gk.TotalSeen = gk.CryptoBlocked + gk.SemanticBlocked + gk.Forwarded

====
